---------------------------- MODULE Spec2Model ----------------------------
(***************************************************************************)
(* Session layer of the dsp-cipher VS Code extension.                      *)
(*                                                                         *)
(* Connection owners: every ChatViewProvider (src/src/chatViewProvider.ts) *)
(* and the single ProblemDescriptionProvider (src/unnamed/part_000) own    *)
(* one WebSocket link each, with the same open/message/close/error         *)
(* handlers, the same reconnect timer and the same sendWebSocketMessage.   *)
(* Everything runs on one event loop: an action is one callback, run to    *)
(* completion.                                                             *)
(***************************************************************************)
EXTENDS Integers, Sequences, FiniteSets, TLC

\* ----------------------------------------------------------------- bounds

\* Socket objects per owner that the model tells apart (a closed,
\* unreferenced socket is forgotten and its slot is used again).
MaxSockets == 2
\* Timer handles per owner that the model tells apart.
MaxTimers == 2
\* ChatViewProvider instances that may be constructed.
MaxProviders == 2
\* getProblemDescriptionFromWebSocket calls made.
MaxReq == 2
\* UI surfaces (WebviewViews) resolved over a run.
MaxViews == 3
\* Chat messages stored at a time in the runs that follow the chat handlers.
MaxMsgs == 3
\* Activity entries stored at a time in the runs that follow the handlers.
MaxActs == 2
\* Status handles (Disposables) created by the callers of sendMessage.
MaxHandles == 3
\* Surfaces of the activity view resolved over a run.
MaxActViews == 2
\* handleUserMessage calls awaiting gatherVSCodeContext at a time.
MaxAwaiting == 1
\* clearChat calls of a provider waiting for the webview's mode at a time.
MaxModeCalls == 2
\* Values the constructor's `vscode_${Date.now()}_${random}` may take.
MaxClientIds == 2
\* Messages a surface's container holds at most.
MaxReceived == 4

\* ------------------------------------------------------ program constants

ReconnectDelayMs == 2000
RequestTimeoutMs == 5000
\* The cap of addActivity, which the spec also gives for the chat history.
HistoryCap == 50

\* --------------------------------------------------------------- universe

PD == 0                          \* the ProblemDescriptionProvider
Providers == 1..MaxProviders     \* ChatViewProvider instances
Owners == {PD} \cup Providers
Sockets == 1..MaxSockets
TimerIds == 1..MaxTimers

\* A socket slot: FREE (no object), the four ws readyStates, and two
\* refinements of CLOSING that say which events the library still owes:
\*   ABORTING  close() was called while CONNECTING: 'error' then 'close' due
\*   ERRORED   'error' was emitted: 'close' due
SockStates == {"FREE", "CONNECTING", "OPEN", "CLOSING", "ABORTING", "ERRORED", "CLOSED"}

Reqs == 1..MaxReq
Views == 1..MaxViews
BroadcastTypes == {"addMessage", "showTyping", "hideTyping", "clearChat"}
\* Paths a problem_description_response may carry; "" is a frame without one.
Paths == {"p1", "p2"}
FramePaths == Paths \cup {""}
HandleIds == 1..MaxHandles
ActViews == 1..MaxActViews
\* The keys sendMessage and handleBackendMessage use in _activeStatusMessages.
Kinds == {"submit", "run"}
ClientIds == 1..MaxClientIds

VARIABLES
    constructed,       \* ChatViewProvider instances that exist
    clientId,          \* _clientId of each ChatViewProvider (0: not assigned)
    webSocket,         \* _webSocket: the owner's current socket (0: undefined)
    sock,              \* state of each socket object of the owner
    isConnected,       \* _isConnected
    reconnectTimeout,  \* _reconnectTimeout: the stored timer handle (0: undefined)
    timers,            \* reconnect timers scheduled and neither fired nor cleared
    disposed,          \* history: dispose() has been called on the owner
    lastCall,          \* the sendWebSocketMessage call of the last step, if any
    req,               \* the getProblemDescriptionFromWebSocket calls: promise,
                       \* timeout timer, one-shot listener
    markdownPath,      \* ProblemDescriptionProvider._markdownPath ("": empty)
    panel,             \* the path whose file the panel shows ("none": no panel)
    lastEvent,         \* the event the last step of the request layer handled
    instances,         \* ChatViewProvider._instances
    view,              \* _view of each provider (0: undefined)
    viewState,         \* each surface: "unused", "live" or "disposed"
    viewOf,            \* the provider a surface was resolved for (0: none)
    restorePending,    \* 100 ms restore timers of a provider not yet fired
    messages,          \* ChatViewProvider._messages
    posts,             \* the postMessage calls of the last step of the view layer
    received,          \* per surface: the messages in its webview's messagesContainer
    typing,            \* per surface: its webview shows the typing indicator
    bcast,             \* the event type that step broadcast ("none": no broadcast)
    registered,        \* history: surfaces resolved while their provider was registered
    removals,          \* history: times onDidDispose took the provider out
    awaiting,          \* handleUserMessage calls of a provider suspended at their await
    modeResolver,      \* _currentModeResolver: the clearChat call it belongs to (0: undefined)
    modeTimers,        \* the getCurrentModeFromWebview calls not over yet: the
                       \* 1000 ms timer is armed or the promise is not settled
    activityProvider,  \* _activityProvider of each ChatViewProvider is defined
    activeStatusMessages, \* _activeStatusMessages: the Map's entries in insertion order
    statusHandles,     \* each status handle: made, and the times dispose() ran on it
    activities,        \* ActivityViewProvider._activities (head: most recent)
    actConstructed,    \* an ActivityViewProvider exists
    actInstances,      \* ActivityViewProvider._instances
    actView,           \* ActivityViewProvider._view (0: undefined)
    actViewState,      \* each activity surface: "unused", "live" or "disposed"
    actPending,        \* 100 ms _updateView timers not yet fired
    actPosts           \* the postMessage calls of the last step to activity surfaces

connVars == <<constructed, clientId, webSocket, sock, isConnected, reconnectTimeout, timers,
              disposed, lastCall>>

reqVars == <<req, markdownPath, panel, lastEvent>>

\* The view registry and the chat history.
viewVars == <<instances, view, viewState, viewOf, restorePending, messages, posts,
              received, typing, bcast, registered, removals>>

\* The operation tracker, the activity store and the activity view.
opVars == <<awaiting, modeResolver, modeTimers, activityProvider, activeStatusMessages, statusHandles, activities,
            actConstructed, actInstances, actView, actViewState, actPending, actPosts>>

uiVars == <<viewVars, opVars>>

\* What the connection handlers of an owner never touch.
nonConnVars == <<markdownPath, panel, uiVars>>

vars == <<connVars, reqVars, uiVars>>

\* ---------------------------------------------------------------- helpers

TypeOK ==
    /\ constructed \subseteq Providers
    /\ clientId \in [Providers -> {0} \cup ClientIds]
    /\ webSocket \in [Owners -> {0} \cup Sockets]
    /\ sock \in [Owners -> [Sockets -> SockStates]]
    /\ isConnected \in [Owners -> BOOLEAN]
    /\ reconnectTimeout \in [Owners -> {0} \cup TimerIds]
    /\ \A o \in Owners : \A t \in timers[o] : t.id \in TimerIds
    /\ disposed \in [Owners -> BOOLEAN]
    /\ markdownPath \in FramePaths
    /\ panel \in Paths \cup {"none"}
    /\ view \in [Providers -> {0} \cup Views]
    /\ received \in [Views -> 0..MaxReceived]
    /\ typing \in [Views -> BOOLEAN]
    /\ viewOf \in [Views -> {0} \cup Providers]

\* WebSocket.readyState as the program reads it.
ReadyState(o) ==
    IF webSocket[o] = 0 THEN "UNDEFINED"
    ELSE LET st == sock[o][webSocket[o]] IN
         IF st \in {"CLOSING", "ABORTING", "ERRORED"} THEN "CLOSING" ELSE st

\* The spec's connection state of an owner.
ConnState(o) ==
    IF isConnected[o] /\ ReadyState(o) = "OPEN" THEN "Connected"
    ELSE IF ReadyState(o) = "CONNECTING" THEN "Connecting"
    ELSE "Disconnected"

LiveSockets(o) == {s \in Sockets : sock[o][s] \notin {"FREE", "CLOSED"}}

Exists(o) == o = PD \/ o \in constructed

Min(S) == CHOOSE x \in S : \A y \in S : x <= y

NoCall == [owner |-> -1]

\* The webview script's message listener run on the posts ps in order, for
\* the surfaces that exist: addMessage appends one message to the surface's
\* messagesContainer, clearChat resets the container, every other event
\* leaves it alone. A disposed surface's webview is gone.
RECURSIVE Receive(_, _)
Receive(rc, ps) ==
    IF ps = <<>> THEN rc
    ELSE LET e == Head(ps)
             v == e.view
             nrc == IF v \notin Views \/ viewState'[v] # "live" THEN rc
                    ELSE IF e.type = "addMessage" THEN [rc EXCEPT ![v] = @ + 1]
                    ELSE IF e.type = "clearChat" THEN [rc EXCEPT ![v] = 0]
                    ELSE rc
         IN Receive(nrc, Tail(ps))

\* The same listener's typingIndicator: showTyping puts the indicator up,
\* hideTyping and clearChat take it down.
RECURSIVE ReceiveTyping(_, _)
ReceiveTyping(ty, ps) ==
    IF ps = <<>> THEN ty
    ELSE LET e == Head(ps)
             v == e.view
             nty == IF v \notin Views \/ viewState'[v] # "live" THEN ty
                    ELSE IF e.type = "showTyping" THEN [ty EXCEPT ![v] = TRUE]
                    ELSE IF e.type \in {"hideTyping", "clearChat"}
                         THEN [ty EXCEPT ![v] = FALSE]
                    ELSE ty
         IN ReceiveTyping(nty, Tail(ps))

\* The indicators after a step that made the posts ps.
Typing(ps) ==
    ReceiveTyping([w \in Views |-> viewState'[w] = "live" /\ typing[w]], ps)

\* Every surface's container has room for n more messages.
Room(n) == \A w \in Views : received[w] + n <= MaxReceived

\* The containers after a step that made the posts ps: those of the surfaces
\* that exist after the step, with the posts received.
Received(ps) ==
    Receive([w \in Views |-> IF viewState'[w] = "live" THEN received[w] ELSE 0], ps)

NoEvent == [kind |-> "none"]

\* A request slot not used yet. st: the promise ("unused", "pending",
\* "resolved", "rejected"); val: what it resolved with ("null" or a path);
\* timeout: the delay of its outstanding timer (0: none); listener: the socket its
\* one-shot handler is attached to (0: none). History: by is the event that
\* settled it, why is the situation the call was made in.
NoReq == [st |-> "unused", val |-> "none", timeout |-> 0, listener |-> 0,
          by |-> "none", why |-> "none"]

\* What sendWebSocketMessage reads and must leave alone.
ConnSnapshot(ic, ws, sk, rt, tm) ==
    [isConnected |-> ic, webSocket |-> ws, sock |-> sk, reconnectTimeout |-> rt,
     timers |-> tm]

\* ------------------------------------------------- sendWebSocketMessage

\* socket.send(frame) of the ws library: the frame reaches the socket when the
\* socket is OPEN and the call does not throw.
SocketAccepts(rs, throws) == rs = "OPEN" /\ ~throws

\* A send whose exception is not caught.
SendNoCatch(ic, rs, throws) ==
    IF ic /\ rs = "OPEN"
    THEN (IF SocketAccepts(rs, throws) THEN "true" ELSE "throw")
    ELSE "false"

\* The outcome of sendWebSocketMessage, given the flag and the readyState it
\* reads and whether socket.send throws: "true", "false", or "throw" for an
\* exception that leaves the method.
sendWebSocketMessage(ic, rs, throws) ==
    IF ic /\ rs = "OPEN"
    THEN (IF SocketAccepts(rs, throws) THEN "true" ELSE "false")
    ELSE "false"

\* The types of the frames a ChatViewProvider builds with a clientId field.
IdFrames == {"client_register", "chat_message", "pong", "clear_chat"}

\* A clientId made anew for every socket.
FrameClientIdPerSocket(o, f) ==
    IF o \in Providers /\ f \in IdFrames THEN webSocket[o] ELSE 0

\* The clientId field of the frame of type f that owner o builds (0: the
\* frame has no such field): this._clientId in the four frames of a
\* ChatViewProvider; the ProblemDescriptionProvider has no _clientId and its
\* give_problem_description carries a type and a folder_name only.
FrameClientId(o, f) == IF o \in Providers /\ f \in IdFrames THEN clientId[o] ELSE 0

\* The record of one call made on owner o in the state given: what it
\* returned, the frame (its type and clientId field) that was passed and the
\* one that reached the socket, and the state it ran in.
CallRecord(o, f, throws, ic, ws, sk, rt, tm) ==
    LET rs == IF ws = 0 THEN "UNDEFINED"
              ELSE IF sk[ws] \in {"CLOSING", "ABORTING", "ERRORED"} THEN "CLOSING"
              ELSE sk[ws]
    IN [owner |-> o, frame |-> f, clientId |-> FrameClientId(o, f),
        ret |-> sendWebSocketMessage(ic, rs, throws),
        handed |-> IF ic /\ rs = "OPEN" /\ SocketAccepts(rs, throws) THEN f ELSE "none",
        pre |-> ConnSnapshot(ic, ws, sk, rt, tm)]

\* ------------------------------------------------------------ connection

\* The slot of the socket object a `new WebSocket` yields: a slot holding no
\* object, or one whose closed object nothing refers to any more (the
\* owner's field is overwritten by the same statement).
NewSocketSlots(o) ==
    LET other == {s \in Sockets : sock[o][s] \in {"FREE", "CLOSED"} /\ s # webSocket[o]}
    IN IF other # {} THEN {Min(other)}
       ELSE {s \in Sockets : s = webSocket[o] /\ sock[o][s] = "CLOSED"}

\* The handle setTimeout returns: one that names no outstanding timer of the
\* owner once `cleared` is cancelled.
NewTimerIds(o, cleared) ==
    LET used == {t.id : t \in timers[o]} \ {cleared}
        free == TimerIds \ used
    IN IF free = {} THEN {} ELSE {Min(free)}

\* clearTimeout(handle) on the owner's outstanding timers.
ClearTimeout(tm, handle) == {t \in tm : t.id # handle}

\* initializeWebSocket: `new WebSocket(url)` and the registration of the four
\* handlers; `throws` is the constructor throwing, which the catch block
\* answers by clearing the flag. Gives the new <<webSocket, sock, isConnected>>
\* of the owner.
initializeWebSocket(o, s, throws) ==
    IF throws
    THEN <<webSocket[o], sock[o], FALSE>>
    ELSE <<s, [sock[o] EXCEPT ![s] = "CONNECTING"], isConnected[o]>>

\* The one-shot listeners of a socket object go with the object: when its
\* slot is taken by a new socket, none of them is attached to the new one.
DropListeners(s) ==
    [r \in Reqs |-> IF req[r].listener = s THEN [req[r] EXCEPT !.listener = 0]
                    ELSE req[r]]

\* The reconnect timer fires: its callback runs initializeWebSocket.
OnReconnectTimer(o, t, throws) ==
    /\ Exists(o)
    /\ t \in timers[o]
    /\ \E s \in (IF throws THEN {0} ELSE NewSocketSlots(o)) :
          LET r == initializeWebSocket(o, s, throws) IN
          /\ webSocket' = [webSocket EXCEPT ![o] = r[1]]
          /\ sock' = [sock EXCEPT ![o] = r[2]]
          /\ isConnected' = [isConnected EXCEPT ![o] = r[3]]
          /\ req' = IF o = PD /\ ~throws THEN DropListeners(s) ELSE req
    /\ timers' = [timers EXCEPT ![o] = @ \ {t}]
    /\ lastCall' = NoCall
    /\ lastEvent' = NoEvent
    /\ UNCHANGED <<constructed, clientId, reconnectTimeout, disposed>>
    /\ UNCHANGED nonConnVars

\* An open handler that sets the flag and sends nothing.
OnOpenNoRegister(o, s, throws) ==
    /\ Exists(o)
    /\ sock[o][s] = "CONNECTING"
    /\ sock' = [sock EXCEPT ![o][s] = "OPEN"]
    /\ isConnected' = [isConnected EXCEPT ![o] = TRUE]
    /\ lastCall' = NoCall
    /\ (o = PD => ~throws)
    /\ lastEvent' = NoEvent
    /\ UNCHANGED <<constructed, clientId, webSocket, reconnectTimeout, timers, disposed>>
    /\ UNCHANGED <<req, nonConnVars>>

\* 'open' on socket s: the flag is set; a ChatViewProvider then registers
\* itself with the backend.
OnOpen(o, s, throws) ==
    /\ Exists(o)
    /\ sock[o][s] = "CONNECTING"
    /\ sock' = [sock EXCEPT ![o][s] = "OPEN"]
    /\ isConnected' = [isConnected EXCEPT ![o] = TRUE]
    /\ lastCall' = IF o = PD THEN NoCall
                   ELSE CallRecord(o, "client_register", throws, TRUE, webSocket[o],
                                   sock'[o], reconnectTimeout[o], timers[o])
    /\ (o = PD => ~throws)
    /\ lastEvent' = NoEvent
    /\ UNCHANGED <<constructed, clientId, webSocket, reconnectTimeout, timers, disposed>>
    /\ UNCHANGED <<req, nonConnVars>>

\* An error handler that also schedules a reconnect, keeping no handle.
OnErrorAlsoSchedules(o, s) ==
    /\ Exists(o)
    /\ sock[o][s] \in {"CONNECTING", "OPEN", "ABORTING"}
    /\ sock' = [sock EXCEPT ![o][s] = "ERRORED"]
    /\ isConnected' = [isConnected EXCEPT ![o] = FALSE]
    /\ \E id \in NewTimerIds(o, 0) :
          timers' = [timers EXCEPT ![o] = @ \cup {[id |-> id, ms |-> ReconnectDelayMs]}]
    /\ lastCall' = NoCall
    /\ lastEvent' = NoEvent
    /\ UNCHANGED <<constructed, clientId, webSocket, reconnectTimeout, disposed>>
    /\ UNCHANGED <<req, nonConnVars>>

\* 'error' on socket s: the flag is cleared, nothing else. The library emits
\* 'close' on the same socket afterwards.
OnError(o, s) ==
    /\ Exists(o)
    /\ sock[o][s] \in {"CONNECTING", "OPEN", "ABORTING"}
    /\ sock' = [sock EXCEPT ![o][s] = "ERRORED"]
    /\ isConnected' = [isConnected EXCEPT ![o] = FALSE]
    /\ lastCall' = NoCall
    /\ lastEvent' = NoEvent
    /\ UNCHANGED <<constructed, clientId, webSocket, reconnectTimeout, timers, disposed>>
    /\ UNCHANGED <<req, nonConnVars>>

\* A close handler that connects again at once, without a timer: the new
\* socket takes the place of the closed one.
OnCloseConnectsAtOnce(o, s) ==
    /\ Exists(o)
    /\ sock[o][s] \in {"OPEN", "CLOSING", "ERRORED"}
    /\ sock' = [sock EXCEPT ![o][s] = "CONNECTING"]
    /\ webSocket' = [webSocket EXCEPT ![o] = s]
    /\ isConnected' = [isConnected EXCEPT ![o] = FALSE]
    /\ lastCall' = NoCall
    /\ lastEvent' = NoEvent
    /\ UNCHANGED <<constructed, clientId, reconnectTimeout, timers, disposed>>
    /\ UNCHANGED <<req, nonConnVars>>

\* A close handler that schedules the reconnect with another delay.
OnCloseOtherDelay(o, s) ==
    /\ Exists(o)
    /\ sock[o][s] \in {"OPEN", "CLOSING", "ERRORED"}
    /\ sock' = [sock EXCEPT ![o][s] = "CLOSED"]
    /\ isConnected' = [isConnected EXCEPT ![o] = FALSE]
    /\ \E id \in NewTimerIds(o, reconnectTimeout[o]) :
          /\ timers' = [timers EXCEPT ![o] =
                           ClearTimeout(@, reconnectTimeout[o])
                               \cup {[id |-> id, ms |-> 0]}]
          /\ reconnectTimeout' = [reconnectTimeout EXCEPT ![o] = id]
    /\ lastCall' = NoCall
    /\ lastEvent' = NoEvent
    /\ UNCHANGED <<constructed, clientId, webSocket, disposed>>
    /\ UNCHANGED <<req, nonConnVars>>

\* 'close' on socket s: the flag is cleared, the stored timer (if any) is
\* cancelled, and a new reconnect timer is stored.
OnClose(o, s) ==
    /\ Exists(o)
    /\ sock[o][s] \in {"OPEN", "CLOSING", "ERRORED"}
    /\ sock' = [sock EXCEPT ![o][s] = "CLOSED"]
    /\ isConnected' = [isConnected EXCEPT ![o] = FALSE]
    /\ \E id \in NewTimerIds(o, reconnectTimeout[o]) :
          /\ timers' = [timers EXCEPT ![o] =
                           ClearTimeout(@, reconnectTimeout[o])
                               \cup {[id |-> id, ms |-> ReconnectDelayMs]}]
          /\ reconnectTimeout' = [reconnectTimeout EXCEPT ![o] = id]
    /\ lastCall' = NoCall
    /\ lastEvent' = NoEvent
    /\ UNCHANGED <<constructed, clientId, webSocket, disposed>>
    /\ UNCHANGED <<req, nonConnVars>>

\* socket.close() of the ws library: a CONNECTING socket aborts its handshake
\* ('error' and 'close' follow), an OPEN one starts closing ('close'
\* follows), any other is left as it is.
SocketClose(st) ==
    IF st = "CONNECTING" THEN "ABORTING"
    ELSE IF st = "OPEN" THEN "CLOSING"
    ELSE st

\* The handles a provider's _activeStatusMessages holds.
TrackedHandles(o) ==
    IF o \in Providers
    THEN {activeStatusMessages[o][i].handle : i \in DOMAIN activeStatusMessages[o]}
    ELSE {}

\* A clean-up that disposes one handle of H only, the first made.
DisposeOneHandle(H) ==
    [h \in HandleIds |-> IF H # {} /\ h = Min(H)
                         THEN [statusHandles[h] EXCEPT !.disposals = @ + 1]
                         ELSE statusHandles[h]]

\* Disposable.dispose() run once on every handle of H.
DisposeHandles(H) ==
    [h \in HandleIds |-> IF h \in H THEN [statusHandles[h] EXCEPT !.disposals = @ + 1]
                         ELSE statusHandles[h]]

\* dispose(): the stored timer is cancelled and the socket is closed; a
\* ChatViewProvider also disposes every tracked status handle and clears the
\* tracker.
Dispose(o) ==
    /\ Exists(o)
    /\ ~disposed[o]
    /\ timers' = [timers EXCEPT ![o] = ClearTimeout(@, reconnectTimeout[o])]
    /\ sock' = IF webSocket[o] = 0 THEN sock
               ELSE [sock EXCEPT ![o][webSocket[o]] = SocketClose(@)]
    /\ disposed' = [disposed EXCEPT ![o] = TRUE]
    /\ statusHandles' = DisposeHandles(TrackedHandles(o))
    /\ activeStatusMessages' = [q \in Providers |->
                                   IF q = o THEN <<>> ELSE activeStatusMessages[q]]
    /\ lastCall' = NoCall
    /\ lastEvent' = NoEvent
    /\ UNCHANGED <<constructed, clientId, webSocket, isConnected, reconnectTimeout>>
    /\ UNCHANGED <<req, markdownPath, panel, viewVars, awaiting, modeResolver,
                   modeTimers, activityProvider, activities, actConstructed, actInstances, actView, actViewState,
                   actPending, actPosts>>

\* sendWebSocketMessage(frame), called in whatever state the owner is in.
SendWebSocketMessage(o, f, throws) ==
    /\ Exists(o)
    /\ lastCall' = CallRecord(o, f, throws, isConnected[o], webSocket[o], sock[o],
                              reconnectTimeout[o], timers[o])
    /\ lastEvent' = NoEvent
    /\ UNCHANGED <<constructed, clientId, webSocket, sock, isConnected, reconnectTimeout,
                   timers, disposed>>
    /\ UNCHANGED <<req, nonConnVars>>

\* ------------------------------------------------------------------ init

\* After activate(): one ChatViewProvider (without an activity provider) and
\* the ProblemDescriptionProvider were constructed, and each constructor ran
\* initializeWebSocket, which created the owner's first socket. Everything
\* but the two histories and the existence of an ActivityViewProvider.
InitProviders ==
    /\ constructed = {1}
    /\ clientId = [p \in Providers |-> IF p = 1 THEN 1 ELSE 0]
    /\ webSocket = [o \in Owners |-> IF o \in {PD, 1} THEN 1 ELSE 0]
    /\ sock = [o \in Owners |->
                 [s \in Sockets |-> IF o \in {PD, 1} /\ s = 1 THEN "CONNECTING" ELSE "FREE"]]
    /\ isConnected = [o \in Owners |-> FALSE]
    /\ reconnectTimeout = [o \in Owners |-> 0]
    /\ timers = [o \in Owners |-> {}]
    /\ disposed = [o \in Owners |-> FALSE]
    /\ lastCall = NoCall
    /\ req = [r \in Reqs |-> NoReq]
    /\ markdownPath = ""
    /\ panel = "none"
    /\ lastEvent = NoEvent
    /\ instances = <<1>>
    /\ view = [p \in Providers |-> 0]
    /\ viewState = [v \in Views |-> "unused"]
    /\ viewOf = [v \in Views |-> 0]
    /\ restorePending = [p \in Providers |-> 0]
    /\ posts = <<>>
    /\ received = [v \in Views |-> 0]
    /\ typing = [v \in Views |-> FALSE]
    /\ bcast = "none"
    /\ registered = {}
    /\ removals = [p \in Providers |-> 0]
    /\ awaiting = [p \in Providers |-> 0]
    /\ modeResolver = [p \in Providers |-> 0]
    /\ modeTimers = [p \in Providers |-> {}]
    /\ activityProvider = [p \in Providers |-> FALSE]
    /\ activeStatusMessages = [p \in Providers |-> <<>>]
    /\ statusHandles = [h \in HandleIds |-> [made |-> FALSE, disposals |-> 0]]
    /\ actView = 0
    /\ actViewState = [v \in ActViews |-> "unused"]
    /\ actPending = 0
    /\ actPosts = <<>>

\* The static histories start empty, and activate() constructs no
\* ActivityViewProvider.
Init ==
    /\ InitProviders
    /\ messages = <<>>
    /\ activities = <<>>
    /\ actConstructed = FALSE
    /\ actInstances = <<>>

\* ----------------------------------------------- connection lifecycle

ConnOwners == {PD, 1}

\* The frames an owner's callers pass to sendWebSocketMessage.
FramesOf(o) == IF o = PD THEN {"give_problem_description"} ELSE {"chat_message", "pong"}

NextConn ==
    \E o \in ConnOwners :
        \/ \E s \in Sockets, throws \in BOOLEAN : OnOpen(o, s, throws)
        \/ \E s \in Sockets : OnError(o, s)
        \/ \E s \in Sockets : OnClose(o, s)
        \/ \E t \in timers[o], throws \in BOOLEAN : OnReconnectTimer(o, t, throws)
        \/ Dispose(o)
        \/ \E f \in FramesOf(o), throws \in BOOLEAN : SendWebSocketMessage(o, f, throws)

SpecConn == Init /\ [][NextConn]_vars

\* The ws library emits 'close' on a socket after every 'error' and after
\* every close(): a socket does not stay open, closing or errored for ever
\* once its 'close' is due.
FairSpecConn ==
    SpecConn /\ \A o \in ConnOwners : \A s \in Sockets : WF_vars(OnClose(o, s))

\* --------------------------------------- getProblemDescriptionFromWebSocket

\* resolve(v) of a promise: it settles a pending promise and does nothing to
\* a settled one.
Resolve(rq, v, by) ==
    IF rq.st = "pending" THEN [rq EXCEPT !.st = "resolved", !.val = v, !.by = by]
    ELSE rq

\* message.path || null
PathOrNull(path) == IF path = "" THEN "null" ELSE path

\* What the await in openProblemDescription continues with once the promise
\* has resolved with v: a path is stored; an existing file is shown in a new
\* panel unless a panel is there already (which is only revealed). Gives
\* <<_markdownPath, panel>>.
Continuation(v, mp, pn, fileExists) ==
    IF v = "null" THEN <<mp, pn>>
    ELSE IF ~fileExists THEN <<v, pn>>
    ELSE IF pn # "none" THEN <<v, pn>>
    ELSE <<v, v>>

\* The situation a call is made in, as the environment has it.
Situation(folder, throws) ==
    IF ConnState(PD) # "Connected" THEN "not_connected"
    ELSE IF ~folder THEN "no_folder"
    ELSE IF throws THEN "send_failed"
    ELSE "sent"

\* The promise executor of getProblemDescriptionFromWebSocket: the three
\* early resolve(null), else the timeout timer and the one-shot listener on
\* the current socket.
Executor(folder, throws) ==
    LET ret == sendWebSocketMessage(isConnected[PD], ReadyState(PD), throws)
        rq == [NoReq EXCEPT !.st = "pending", !.why = Situation(folder, throws)]
    IN IF ~isConnected[PD] THEN Resolve(rq, "null", "immediate")
       ELSE IF ~folder THEN Resolve(rq, "null", "immediate")
       ELSE IF ret = "throw" THEN [rq EXCEPT !.st = "rejected"]
       ELSE IF ret # "true" THEN Resolve(rq, "null", "immediate")
       ELSE [rq EXCEPT !.timeout = RequestTimeoutMs, !.listener = webSocket[PD]]

\* openProblemDescription() up to and including what follows an immediately
\* resolved promise (a null path: a warning, nothing else).
OpenProblemDescription(r, folder, throws) ==
    /\ req[r].st = "unused"
    /\ \A q \in Reqs : q < r => req[q].st # "unused"
    /\ (throws => isConnected[PD] /\ folder /\ ReadyState(PD) = "OPEN")
    /\ req' = [req EXCEPT ![r] = Executor(folder, throws)]
    /\ lastCall' = IF isConnected[PD] /\ folder
                   THEN CallRecord(PD, "give_problem_description", throws,
                                   isConnected[PD], webSocket[PD], sock[PD],
                                   reconnectTimeout[PD], timers[PD])
                   ELSE NoCall
    /\ lastEvent' = [kind |-> "call", r |-> r]
    /\ UNCHANGED <<constructed, clientId, webSocket, sock, isConnected, reconnectTimeout,
                   timers, disposed, markdownPath, panel, uiVars>>

\* A timeout callback that does not settle the promise.
TimeoutNoResolve(rq) == [rq EXCEPT !.timeout = 0]

\* The 5000 ms timeout callback of a request: resolve(null).
TimeoutCallback(rq) == Resolve([rq EXCEPT !.timeout = 0], "null", "timeout")

\* The timeout timer of request r fires; a null path only warns.
RequestTimeout(r) ==
    /\ req[r].timeout > 0
    /\ req' = [req EXCEPT ![r] = TimeoutCallback(req[r])]
    /\ lastCall' = NoCall
    /\ lastEvent' = [kind |-> "timeout", r |-> r]
    /\ UNCHANGED <<constructed, clientId, webSocket, sock, isConnected, reconnectTimeout,
                   timers, disposed, markdownPath, panel, uiVars>>

\* A one-shot handler that gives up on data that does not parse.
MessageHandlerGivesUp(rq, type, path, ws, s) ==
    IF type = "problem_description_response"
    THEN Resolve([rq EXCEPT !.timeout = 0,
                            !.listener = IF ws = s THEN 0 ELSE @],
                 PathOrNull(path), "response")
    ELSE IF type = "malformed"
         THEN Resolve([rq EXCEPT !.timeout = 0, !.listener = 0], "null", "response")
         ELSE rq

\* messageHandler of a request, run for a frame that arrived on socket s
\* while _webSocket is ws: for a problem_description_response it cancels the
\* timer, detaches itself from _webSocket and resolves; any other frame (and
\* one that does not parse) leaves the request waiting.
MessageHandler(rq, type, path, ws, s) ==
    IF type = "problem_description_response"
    THEN Resolve([rq EXCEPT !.timeout = 0,
                            !.listener = IF ws = s THEN 0 ELSE @],
                 PathOrNull(path), "response")
    ELSE rq

\* A dispatch whose default branch forgets the stored path.
HandleMessageDefaultClears(type, path, mp, pn, fileExists) ==
    IF type = "problem_description_response"
    THEN (IF path # "" THEN <<path, IF pn # "none" /\ fileExists THEN path ELSE pn>>
          ELSE <<mp, pn>>)
    ELSE <<"", pn>>

\* handleWebSocketMessage of the ProblemDescriptionProvider: a response with
\* a path stores the path and, if a panel exists, refreshes it from the file
\* (refreshProblemDescription). Gives <<_markdownPath, panel>>.
handleWebSocketMessage(type, path, mp, pn, fileExists) ==
    IF type = "problem_description_response" /\ path # ""
    THEN <<path, IF pn # "none" /\ fileExists THEN path ELSE pn>>
    ELSE <<mp, pn>>

InTypes == {"problem_description_response", "other", "malformed"}

\* 'message' on socket s of the ProblemDescriptionProvider. The listeners run
\* in the order they were attached: the one of initializeWebSocket, then the
\* one-shot handlers on s; then the awaits of the promises they resolved
\* continue.
OnMessagePD(s, type, path, fileExists) ==
    /\ sock[PD][s] \in {"OPEN", "CLOSING"}
    /\ (type # "problem_description_response" => path = "" /\ fileExists)
    /\ LET h == IF type = "malformed" THEN <<markdownPath, panel>>
                ELSE handleWebSocketMessage(type, path, markdownPath, panel, fileExists)
           new == [r \in Reqs |->
                      IF req[r].listener = s
                      THEN MessageHandler(req[r], type, path, webSocket[PD], s)
                      ELSE req[r]]
           settled == {r \in Reqs : req[r].st = "pending" /\ new[r].st = "resolved"}
           c == IF settled = {} THEN h
                ELSE Continuation(PathOrNull(path), h[1], h[2], fileExists)
       IN /\ req' = new
          /\ markdownPath' = c[1]
          /\ panel' = c[2]
    /\ lastCall' = NoCall
    /\ lastEvent' = [kind |-> "message", socket |-> s, type |-> type, path |-> path]
    /\ UNCHANGED <<constructed, clientId, webSocket, sock, isConnected, reconnectTimeout,
                   timers, disposed, uiVars>>

NextReq ==
    \/ \E s \in Sockets : OnOpen(PD, s, FALSE)
    \/ \E s \in Sockets : OnError(PD, s)
    \/ \E s \in Sockets : OnClose(PD, s)
    \/ \E t \in timers[PD], throws \in BOOLEAN : OnReconnectTimer(PD, t, throws)
    \/ Dispose(PD)
    \/ \E r \in Reqs, folder \in BOOLEAN, throws \in BOOLEAN :
          OpenProblemDescription(r, folder, throws)
    \/ \E r \in Reqs : RequestTimeout(r)
    \/ \E s \in Sockets, type \in InTypes, path \in FramePaths, fileExists \in BOOLEAN :
          OnMessagePD(s, type, path, fileExists)

SpecReq == Init /\ [][NextReq]_vars

\* Node fires every timer that stays scheduled.
FairSpecReq == SpecReq /\ \A r \in Reqs : WF_vars(RequestTimeout(r))

\* ------------------------------------------------------------ view registry

Range(seq) == {seq[i] : i \in DOMAIN seq}

\* Array.prototype.indexOf: the 0-based index of the first occurrence, or -1.
IndexOf(seq, x) ==
    IF x \in Range(seq) THEN Min({i \in DOMAIN seq : seq[i] = x}) - 1 ELSE -1

\* Array.prototype.splice(start, 1): a negative start counts from the end.
Splice1(seq, start) ==
    LET from == IF start < 0 THEN (IF Len(seq) + start < 0 THEN 0 ELSE Len(seq) + start)
                ELSE start
    IN IF from >= Len(seq) THEN seq
       ELSE [i \in 1..(Len(seq) - 1) |-> IF i <= from THEN seq[i] ELSE seq[i + 1]]

\* A removal that splices whatever indexOf returns.
RemoveUnguarded(seq, p) == Splice1(seq, IndexOf(seq, p))

\* The onDidDispose callback of resolveWebviewView on _instances.
RemoveInstance(seq, p) ==
    IF IndexOf(seq, p) > -1 THEN Splice1(seq, IndexOf(seq, p)) ELSE seq

\* new ChatViewProvider(...): the instance is pushed on _instances and its
\* socket is initialised.
Construct(p, throws) ==
    /\ p \notin constructed
    /\ constructed' = constructed \cup {p}
    /\ \E id \in ClientIds : clientId' = [clientId EXCEPT ![p] = id]
    /\ instances' = Append(instances, p)
    /\ \E s \in (IF throws THEN {0} ELSE NewSocketSlots(p)) :
          LET r == initializeWebSocket(p, s, throws) IN
          /\ webSocket' = [webSocket EXCEPT ![p] = r[1]]
          /\ sock' = [sock EXCEPT ![p] = r[2]]
          /\ isConnected' = [isConnected EXCEPT ![p] = r[3]]
    /\ \E a \in (IF actConstructed THEN BOOLEAN ELSE {FALSE}) :
          activityProvider' = [activityProvider EXCEPT ![p] = a]
    /\ posts' = <<>>
    /\ bcast' = "none"
    /\ lastEvent' = NoEvent
    /\ UNCHANGED <<reconnectTimeout, timers, disposed, lastCall, req, markdownPath,
                   panel, view, viewState, viewOf, restorePending, messages,
                   registered, removals>>
    /\ UNCHANGED <<awaiting, modeResolver, modeTimers, activeStatusMessages,
                   statusHandles, activities,
                   actConstructed, actInstances, actView, actViewState, actPending,
                   actPosts>>
    /\ received' = Received(posts')
    /\ typing' = Typing(posts')

\* resolveWebviewView(webviewView): VS Code hands provider p the new surface
\* v (it does so only while p has no live surface); _view is set, the
\* handlers are registered and the 100 ms restore timer is started.
ResolveWebviewView(p, v) ==
    /\ p \in constructed
    /\ viewState[v] = "unused"
    /\ \A u \in Views : u < v => viewState[u] # "unused"
    /\ view[p] # 0 => viewState[view[p]] = "disposed"
    /\ view' = [view EXCEPT ![p] = v]
    /\ viewState' = [viewState EXCEPT ![v] = "live"]
    /\ viewOf' = [viewOf EXCEPT ![v] = p]
    /\ restorePending' = [restorePending EXCEPT ![p] = @ + 1]
    /\ registered' = IF p \in Range(instances) THEN registered \cup {v} ELSE registered
    /\ posts' = <<>>
    /\ bcast' = "none"
    /\ lastEvent' = [kind |-> "resolve", provider |-> p, view |-> v]
    /\ UNCHANGED <<connVars, req, markdownPath, panel, instances, messages, removals,
                   opVars>>
    /\ received' = Received(posts')
    /\ typing' = Typing(posts')

\* A disposal that also empties the chat history.
ViewDisposedClearsChat(v) ==
    /\ viewState[v] = "live"
    /\ viewState' = [viewState EXCEPT ![v] = "disposed"]
    /\ instances' = RemoveInstance(instances, viewOf[v])
    /\ removals' = [removals EXCEPT ![viewOf[v]] =
                       IF Len(instances') < Len(instances) THEN @ + 1 ELSE @]
    /\ messages' = <<>>
    /\ posts' = <<>>
    /\ bcast' = "none"
    /\ lastEvent' = [kind |-> "viewDisposed", provider |-> viewOf[v], view |-> v]
    /\ UNCHANGED <<connVars, req, markdownPath, panel, view, viewOf, restorePending,
                   registered, opVars>>
    /\ received' = Received(posts')
    /\ typing' = Typing(posts')

\* Surface v is disposed: the onDidDispose callback registered for it runs.
ViewDisposed(v) ==
    /\ viewState[v] = "live"
    /\ viewState' = [viewState EXCEPT ![v] = "disposed"]
    /\ instances' = RemoveInstance(instances, viewOf[v])
    /\ removals' = [removals EXCEPT ![viewOf[v]] =
                       IF Len(instances') < Len(instances) THEN @ + 1 ELSE @]
    /\ posts' = <<>>
    /\ bcast' = "none"
    /\ lastEvent' = [kind |-> "viewDisposed", provider |-> viewOf[v], view |-> v]
    /\ UNCHANGED <<connVars, req, markdownPath, panel, view, viewOf, restorePending,
                   messages, registered, opVars>>
    /\ received' = Received(posts')
    /\ typing' = Typing(posts')

\* A broadcast that posts to _view without testing it.
UpdateAllViewsUnchecked(type) ==
    [i \in DOMAIN instances |-> [view |-> view[instances[i]], type |-> type]]

\* _updateAllViews(type, data): one postMessage to the _view of every instance
\* in _instances that has one, in list order.
updateAllViews(type) ==
    LET with == SelectSeq(instances, LAMBDA q : view[q] # 0)
    IN [i \in DOMAIN with |-> [view |-> view[with[i]], type |-> type]]

\* A forEach that a failed post ends: the surfaces after it get no call.
PostAllStopsAtFailure(type, failing) ==
    LET calls == updateAllViews(type)
        bad == {i \in DOMAIN calls : calls[i].view \in failing}
        n == IF bad = {} THEN Len(calls) ELSE Min(bad)
    IN [i \in 1..n |-> [view |-> calls[i].view, type |-> type,
                        ok |-> calls[i].view \notin failing]]

\* The postMessage calls of one _updateAllViews and their outcomes, when the
\* posts to the surfaces in `failing` fail. postMessage returns a Thenable at
\* once and the forEach callback neither awaits nor reads it: a failed post
\* is a Thenable that settles with false or is rejected after the loop has
\* gone on to the next instance.
postAll(type, failing) ==
    LET calls == updateAllViews(type)
    IN [i \in DOMAIN calls |-> [view |-> calls[i].view, type |-> type,
                                ok |-> calls[i].view \notin failing]]

\* _updateAllViews called in whatever state the registry is in, the posts to
\* any of the surfaces failing.
UpdateAllViews(type) ==
    /\ \E failing \in SUBSET ({view[q] : q \in Range(instances)} \ {0}) :
          LET calls == postAll(type, failing) IN
          /\ posts' = [i \in DOMAIN calls |-> [view |-> calls[i].view, type |-> type]]
          /\ lastEvent' = [kind |-> "broadcast", type |-> type, failing |-> failing]
    /\ bcast' = type
    /\ UNCHANGED <<connVars, req, markdownPath, panel, instances, view, viewState,
                   viewOf, restorePending, messages, registered, removals, opVars>>
    /\ received' = Received(posts')
    /\ typing' = Typing(posts')

\* A replay that posts the newest message first.
RestoreNewestFirst(p) ==
    IF view[p] = 0 THEN <<>>
    ELSE [i \in DOMAIN messages |->
             [view |-> view[p], type |-> "addMessage",
              msg |-> messages[Len(messages) + 1 - i]]]

\* restoreMessages(): every stored message is posted to _view, oldest first.
restoreMessages(p) ==
    IF view[p] = 0 THEN <<>>
    ELSE [i \in DOMAIN messages |-> [view |-> view[p], type |-> "addMessage", msg |-> messages[i]]]

\* A 100 ms restore timer of provider p fires.
RestoreTimer(p) ==
    /\ restorePending[p] > 0
    /\ restorePending' = [restorePending EXCEPT ![p] = @ - 1]
    /\ posts' = restoreMessages(p)
    /\ bcast' = "none"
    /\ lastEvent' = [kind |-> "restore", provider |-> p]
    /\ UNCHANGED <<connVars, req, markdownPath, panel, instances, view, viewState,
                   viewOf, messages, registered, removals, opVars>>
    /\ received' = Received(posts')
    /\ typing' = Typing(posts')

NextViews ==
    \/ \E p \in Providers, throws \in BOOLEAN : Construct(p, throws)
    \/ \E p \in Providers, v \in Views : ResolveWebviewView(p, v)
    \/ \E v \in Views : ViewDisposed(v)
    \/ \E type \in BroadcastTypes : Room(1) /\ UpdateAllViews(type)
    \/ \E p \in Providers : Room(Len(messages)) /\ RestoreTimer(p)

SpecViews == Init /\ [][NextViews]_vars


\* -------------------------------------------------------------- chat store

\* The ChatMessage objects the handlers build (timestamp and id left out).
UserMessage == [text |-> "text", isUser |-> TRUE, isBackendInitiated |-> FALSE]
AIMessage == [text |-> "text", isUser |-> FALSE, isBackendInitiated |-> FALSE]
BackendMessage == [text |-> "text", isUser |-> FALSE, isBackendInitiated |-> TRUE]
UnableNotice == [text |-> "unable", isUser |-> FALSE, isBackendInitiated |-> FALSE]

\* _updateAllViews('addMessage', { message: m }).
updateAllViewsMessage(m) ==
    LET ps == updateAllViews("addMessage")
    IN [i \in DOMAIN ps |-> [view |-> ps[i].view, type |-> "addMessage", msg |-> m]]

\* Provider p has a surface whose webview can post to it.
HasLiveView(p) == \E v \in Views : viewOf[v] = p /\ viewState[v] = "live"

\* What the chat handlers of the ChatViewProvider never touch.
nonChatVars == <<req, markdownPath, panel, instances, view, viewState, viewOf,
                 restorePending, registered, removals, activityProvider,
                 activeStatusMessages, statusHandles, activities, actConstructed,
                 actInstances, actView, actViewState, actPending, actPosts>>

\* handleUserMessage up to its await: a webview of p posted 'sendMessage'; the
\* user message is stored and broadcast and the typing indicator is shown.
HandleUserMessage(p) ==
    /\ p \in constructed
    /\ HasLiveView(p)
    /\ awaiting[p] < MaxAwaiting
    /\ messages' = Append(messages, UserMessage)
    /\ posts' = updateAllViewsMessage(UserMessage) \o updateAllViews("showTyping")
    /\ bcast' = "none"
    /\ awaiting' = [awaiting EXCEPT ![p] = @ + 1]
    /\ lastCall' = NoCall
    /\ lastEvent' = [kind |-> "userMessage", provider |-> p]
    /\ UNCHANGED <<constructed, clientId, webSocket, sock, isConnected, reconnectTimeout, timers,
                   disposed, modeResolver, modeTimers>>
    /\ UNCHANGED nonChatVars
    /\ received' = Received(posts')
    /\ typing' = Typing(posts')

\* A continuation that, when the send fails, reports nothing and stays
\* suspended to send the message later.
UserMessageSendRetries(p, throws) ==
    /\ awaiting[p] > 0
    /\ (throws => isConnected[p] /\ ReadyState(p) = "OPEN")
    /\ LET c == CallRecord(p, "chat_message", throws, isConnected[p], webSocket[p],
                           sock[p], reconnectTimeout[p], timers[p])
       IN /\ lastCall' = c
          /\ awaiting' = IF c.ret = "true" THEN [awaiting EXCEPT ![p] = @ - 1]
                         ELSE awaiting
    /\ messages' = messages
    /\ posts' = <<>>
    /\ bcast' = "none"
    /\ lastEvent' = [kind |-> "userMessageSent", provider |-> p]
    /\ UNCHANGED <<constructed, clientId, webSocket, sock, isConnected, reconnectTimeout,
                   timers, disposed, modeResolver, modeTimers>>
    /\ UNCHANGED nonChatVars
    /\ received' = Received(posts')
    /\ typing' = Typing(posts')

\* handleUserMessage after gatherVSCodeContext: the chat_message frame is
\* sent; when the send fails the typing indicator is hidden and the local
\* error notice is stored and broadcast.
UserMessageSend(p, throws) ==
    /\ awaiting[p] > 0
    /\ (throws => isConnected[p] /\ ReadyState(p) = "OPEN")
    /\ LET c == CallRecord(p, "chat_message", throws, isConnected[p], webSocket[p],
                           sock[p], reconnectTimeout[p], timers[p])
       IN /\ lastCall' = c
          /\ messages' = IF c.ret = "true" THEN messages
                         ELSE Append(messages, UnableNotice)
          /\ posts' = IF c.ret = "true" THEN <<>>
                      ELSE updateAllViews("hideTyping") \o updateAllViewsMessage(UnableNotice)
    /\ bcast' = "none"
    /\ awaiting' = [awaiting EXCEPT ![p] = @ - 1]
    /\ lastEvent' = [kind |-> "userMessageSent", provider |-> p]
    /\ UNCHANGED <<constructed, clientId, webSocket, sock, isConnected, reconnectTimeout, timers,
                   disposed, modeResolver, modeTimers>>
    /\ UNCHANGED nonChatVars
    /\ received' = Received(posts')
    /\ typing' = Typing(posts')

\* A webview of p posted 'requestMessages': restoreMessages().
RequestMessages(p) ==
    /\ p \in constructed
    /\ HasLiveView(p)
    /\ posts' = restoreMessages(p)
    /\ bcast' = "none"
    /\ lastCall' = NoCall
    /\ lastEvent' = [kind |-> "restore", provider |-> p]
    /\ UNCHANGED <<constructed, clientId, webSocket, sock, isConnected, reconnectTimeout, timers,
                   disposed, messages, awaiting, modeResolver, modeTimers>>
    /\ UNCHANGED nonChatVars
    /\ received' = Received(posts')
    /\ typing' = Typing(posts')

\* The modes the webview's selector offers.
Modes == {"ask", "learn"}

\* The id of a getCurrentModeFromWebview call: one no call not yet over has.
NewModeCalls(p) ==
    LET free == (1..(MaxModeCalls + 1)) \ {c.id : c \in modeTimers[p]}
    IN {Min(free)}

\* clearChat(): the history is emptied and 'clearChat' is broadcast; then the
\* mode is asked of the provider's own webview. Without a _view the request
\* rejects at once and clearCheckpoints sends clear_chat with mode 'ask';
\* otherwise the resolver is stored, 'requestCurrentMode' is posted and the
\* 1000 ms timer is started.
ClearChat(p) ==
    /\ p \in constructed
    /\ Cardinality(modeTimers[p]) < MaxModeCalls
    /\ messages' = <<>>
    /\ bcast' = "none"
    /\ IF view[p] = 0
       THEN /\ posts' = updateAllViews("clearChat")
            /\ lastCall' = CallRecord(p, "clear_chat", FALSE, isConnected[p],
                                      webSocket[p], sock[p], reconnectTimeout[p],
                                      timers[p])
            /\ UNCHANGED <<modeResolver, modeTimers>>
       ELSE \E id \in NewModeCalls(p) :
            /\ posts' = updateAllViews("clearChat")
                           \o <<[view |-> view[p], type |-> "requestCurrentMode"]>>
            /\ lastCall' = NoCall
            /\ modeResolver' = [modeResolver EXCEPT ![p] = id]
            /\ modeTimers' = [modeTimers EXCEPT ![p] =
                                 @ \cup {[id |-> id, settled |-> FALSE, armed |-> TRUE]}]
    /\ lastEvent' = [kind |-> "clearChat", provider |-> p,
                     mode |-> IF view[p] = 0 THEN "ask" ELSE "none"]
    /\ UNCHANGED <<constructed, clientId, webSocket, sock, isConnected, reconnectTimeout, timers,
                   disposed, awaiting>>
    /\ UNCHANGED nonChatVars
    /\ received' = Received(posts')
    /\ typing' = Typing(posts')

\* A webview of p posted 'currentModeResponse': the stored resolver, if any,
\* resolves its call, whose continuation sends clear_chat with the mode the
\* webview reported, and is dropped. The report of the step names the call
\* that was resolved (0: none) and the mode passed to clearCheckpoints.
CurrentModeResponse(p, throws) ==
    /\ p \in constructed
    /\ HasLiveView(p)
    /\ (throws => modeResolver[p] # 0 /\ isConnected[p] /\ ReadyState(p) = "OPEN")
    /\ lastCall' = IF modeResolver[p] = 0 THEN NoCall
                   ELSE CallRecord(p, "clear_chat", throws, isConnected[p], webSocket[p],
                                   sock[p], reconnectTimeout[p], timers[p])
    /\ modeTimers' = [modeTimers EXCEPT ![p] =
                         {IF c.id = modeResolver[p] THEN [c EXCEPT !.settled = TRUE] ELSE c
                             : c \in @}]
    /\ modeResolver' = [modeResolver EXCEPT ![p] = 0]
    /\ posts' = <<>>
    /\ bcast' = "none"
    /\ \E m \in Modes :
          lastEvent' = [kind |-> "currentModeResponse", provider |-> p,
                        call |-> modeResolver[p], answer |-> m,
                        mode |-> IF modeResolver[p] = 0 THEN "none" ELSE m]
    /\ UNCHANGED <<constructed, clientId, webSocket, sock, isConnected, reconnectTimeout, timers,
                   disposed, messages, awaiting>>
    /\ UNCHANGED nonChatVars
    /\ received' = Received(posts')
    /\ typing' = Typing(posts')

\* The 1000 ms timer of call c fires: when a resolver is stored (its own or a
\* later call's) it is dropped and the timer's own promise is rejected,
\* which, unless that promise was settled before, sends clear_chat with mode
\* 'ask'. When no resolver is stored nothing is rejected: a promise not
\* settled by then stays pending.
ModeTimeout(p, c, throws) ==
    /\ c \in modeTimers[p]
    /\ c.armed
    /\ LET rejects == modeResolver[p] # 0 /\ ~c.settled IN
       /\ (throws => rejects /\ isConnected[p] /\ ReadyState(p) = "OPEN")
       /\ lastCall' = IF rejects
                      THEN CallRecord(p, "clear_chat", throws, isConnected[p],
                                      webSocket[p], sock[p], reconnectTimeout[p],
                                      timers[p])
                      ELSE NoCall
    /\ modeTimers' = [modeTimers EXCEPT ![p] =
                         IF c.settled \/ modeResolver[p] # 0 THEN @ \ {c}
                         ELSE (@ \ {c}) \cup {[c EXCEPT !.armed = FALSE]}]
    /\ modeResolver' = [modeResolver EXCEPT ![p] = 0]
    /\ posts' = <<>>
    /\ bcast' = "none"
    /\ lastEvent' = [kind |-> "modeTimeout", provider |-> p, call |-> c.id,
                     settled |-> c.settled,
                     mode |-> IF modeResolver[p] # 0 /\ ~c.settled THEN "ask" ELSE "none"]
    /\ UNCHANGED <<constructed, clientId, webSocket, sock, isConnected, reconnectTimeout, timers,
                   disposed, messages, awaiting>>
    /\ UNCHANGED nonChatVars
    /\ received' = Received(posts')
    /\ typing' = Typing(posts')

\* ---------------------------------------------------------- activity store

\* The one ActivityViewProvider instance.
AV == 1

\* The response payloads a completion frame may carry, told apart by their
\* overall status; "none" is a frame without a response.
Responses == {"PASS", "FAIL"}
\* The problemName of a frame; "none" is a frame without one.
Names == {"P1", "none"}

ActivityData(type, response, problemName) ==
    [type |-> type, response |-> response, problemName |-> problemName]

\* ActivityViewProvider._updateAllViews(): the whole history is posted to the
\* _view of every instance in _instances that has one.
actUpdateAllViews(acts) ==
    LET with == SelectSeq(actInstances, LAMBDA q : actView # 0)
    IN [i \in DOMAIN with |-> [view |-> actView, type |-> "updateActivities",
                               activities |-> acts]]

\* An addActivity that appends at the tail and cuts the head.
AddActivityAtTail(acts, type, response, problemName) ==
    LET a == Append(acts, ActivityData(type, response, problemName))
    IN IF Len(a) > HistoryCap THEN SubSeq(a, 2, Len(a)) ELSE a

\* addActivity on _activities: unshift, then slice(0, 50) when longer than 50.
addActivity(acts, type, response, problemName) ==
    LET a == <<ActivityData(type, response, problemName)>> \o acts
    IN IF Len(a) > HistoryCap THEN SubSeq(a, 1, HistoryCap) ELSE a

\* What the activity view's handlers never touch.
nonActVars == <<connVars, req, markdownPath, panel, viewVars, awaiting, modeResolver,
                modeTimers, activityProvider, activeStatusMessages, statusHandles>>

\* new ActivityViewProvider(...): the instance is pushed on its _instances.
ConstructActivity ==
    /\ ~actConstructed
    /\ actConstructed' = TRUE
    /\ actInstances' = Append(actInstances, AV)
    /\ actPosts' = <<>>
    /\ lastEvent' = NoEvent
    /\ UNCHANGED <<activities, actView, actViewState, actPending>>
    /\ UNCHANGED nonActVars

\* ActivityViewProvider.resolveWebviewView: _view is set, the handlers are
\* registered and the 100 ms _updateView timer is started.
ActResolveWebviewView(v) ==
    /\ actConstructed
    /\ actViewState[v] = "unused"
    /\ \A u \in ActViews : u < v => actViewState[u] # "unused"
    /\ actView # 0 => actViewState[actView] = "disposed"
    /\ actView' = v
    /\ actViewState' = [actViewState EXCEPT ![v] = "live"]
    /\ actPending' = actPending + 1
    /\ actPosts' = <<>>
    /\ lastEvent' = [kind |-> "actResolve", view |-> v]
    /\ UNCHANGED <<activities, actConstructed, actInstances>>
    /\ UNCHANGED nonActVars

\* An activity surface is disposed: its onDidDispose callback runs.
ActViewDisposed(v) ==
    /\ actViewState[v] = "live"
    /\ actViewState' = [actViewState EXCEPT ![v] = "disposed"]
    /\ actInstances' = RemoveInstance(actInstances, AV)
    /\ actPosts' = <<>>
    /\ lastEvent' = [kind |-> "actViewDisposed", view |-> v]
    /\ UNCHANGED <<activities, actConstructed, actView, actPending>>
    /\ UNCHANGED nonActVars

\* _updateView(): the history is posted to _view, if there is one.
updateView ==
    IF actView = 0 THEN <<>>
    ELSE <<[view |-> actView, type |-> "updateActivities", activities |-> activities]>>

\* A 100 ms _updateView timer fires.
ActUpdateTimer ==
    /\ actPending > 0
    /\ actPending' = actPending - 1
    /\ actPosts' = updateView
    /\ lastEvent' = [kind |-> "actUpdate"]
    /\ UNCHANGED <<activities, actConstructed, actInstances, actView, actViewState>>
    /\ UNCHANGED nonActVars

\* addActivity(type, response, problemName), called on the instance by any
\* holder of it.
AddActivity(type, response, problemName) ==
    /\ actConstructed
    /\ activities' = addActivity(activities, type, response, problemName)
    /\ actPosts' = actUpdateAllViews(activities')
    /\ lastEvent' = [kind |-> "addActivity",
                     entry |-> ActivityData(type, response, problemName)]
    /\ UNCHANGED <<actConstructed, actInstances, actView, actViewState, actPending>>
    /\ UNCHANGED nonActVars

\* -------------------------------------------------------- operation tracker

\* Map.prototype.get on the tracker's entries (0: undefined).
MapGet(m, k) ==
    IF \E i \in DOMAIN m : m[i].key = k
    THEN m[CHOOSE i \in DOMAIN m : m[i].key = k].handle
    ELSE 0

\* Map.prototype.delete.
MapDelete(m, k) == SelectSeq(m, LAMBDA e : e.key # k)

\* A set that adds an entry whether or not the key is present.
MapSetAppends(m, k, h) == Append(m, [key |-> k, handle |-> h])

\* Map.prototype.set: the value of a present key is replaced in place, a new
\* key is added at the end.
MapSet(m, k, h) ==
    IF \E i \in DOMAIN m : m[i].key = k
    THEN [i \in DOMAIN m |-> IF m[i].key = k THEN [key |-> k, handle |-> h] ELSE m[i]]
    ELSE Append(m, [key |-> k, handle |-> h])

\* The types sendMessage is called with, and the key each is tracked under.
OutTypes == {"VS_SUBMIT", "VS_RUN", "other"}
KindOf(type) ==
    IF type = "VS_SUBMIT" THEN "submit" ELSE IF type = "VS_RUN" THEN "run" ELSE "none"

\* The handle a caller of sendMessage passes: a Disposable it has just made.
NewHandles == LET free == {h \in HandleIds : ~statusHandles[h].made}
              IN IF free = {} THEN {} ELSE {Min(free)}

\* sendMessage(data, statusMessage): the handle, when given with a VS_SUBMIT
\* or VS_RUN frame, is stored under its kind; then the frame is sent.
SendMessage(p, type, withStatus, throws) ==
    /\ p \in constructed
    /\ (throws => isConnected[p] /\ ReadyState(p) = "OPEN")
    /\ \E h \in (IF withStatus THEN NewHandles ELSE {0}) :
          /\ statusHandles' = IF h = 0 THEN statusHandles
                              ELSE [statusHandles EXCEPT ![h].made = TRUE]
          /\ activeStatusMessages' =
                IF h # 0 /\ KindOf(type) # "none"
                THEN [activeStatusMessages EXCEPT ![p] = MapSet(@, KindOf(type), h)]
                ELSE activeStatusMessages
          /\ lastEvent' = [kind |-> "sendMessage", provider |-> p, type |-> type,
                           handle |-> h]
    /\ lastCall' = CallRecord(p, type, throws, isConnected[p], webSocket[p], sock[p],
                              reconnectTimeout[p], timers[p])
    /\ UNCHANGED <<constructed, clientId, webSocket, sock, isConnected, reconnectTimeout, timers,
                   disposed>>
    /\ UNCHANGED <<req, markdownPath, panel, viewVars, awaiting, modeResolver, modeTimers,
                   activityProvider, activities, actConstructed, actInstances, actView,
                   actViewState, actPending, actPosts>>

\* ------------------------------------------------------ handleBackendMessage

\* The frames the backend may send a ChatViewProvider: the six types the
\* switch knows (the completion frames with or without a response and a
\* problem name), a type it does not know, and data that does not parse.
CompletionTypes == {"submission_response", "run_response"}
ChatFrames ==
    {[type |-> ty] : ty \in {"backend_message", "chat_message", "ping", "unknown",
                             "unparsable"}}
    \cup {[type |-> ty, response |-> r, problemName |-> n] :
             ty \in CompletionTypes, r \in Responses \cup {"none"}, n \in Names}

\* The key and the activity type of a completion frame.
CompletedKind(type) == IF type = "submission_response" THEN "submit" ELSE "run"
ActivityType(type) == IF type = "submission_response" THEN "submission" ELSE "run"

\* The completion branch runs its body: the provider has an activity
\* provider and the frame carries a response.
Completes(p, f) ==
    f.type \in CompletionTypes /\ activityProvider[p] /\ f.response # "none"

\* A dispatch that answers no frame.
ReplyNever(f) == "none"

\* The frame handleBackendMessage sends in answer to frame f ("none": it
\* sends nothing): a pong for a ping.
Reply(f) == IF f.type = "ping" THEN "pong" ELSE "none"

\* 'message' on socket s of ChatViewProvider p: the data is parsed and
\* handleBackendMessage dispatches on its type.
OnMessageChat(p, s, f, throws) ==
    /\ p \in constructed
    /\ sock[p][s] \in {"OPEN", "CLOSING"}
    /\ (throws => f.type = "ping" /\ isConnected[p] /\ ReadyState(p) = "OPEN")
    /\ messages' = IF f.type = "backend_message" THEN Append(messages, BackendMessage)
                   ELSE IF f.type = "chat_message" THEN Append(messages, AIMessage)
                   ELSE messages
    /\ posts' = IF f.type = "backend_message" THEN updateAllViewsMessage(BackendMessage)
                ELSE IF f.type = "chat_message"
                     THEN updateAllViews("hideTyping") \o updateAllViewsMessage(AIMessage)
                     ELSE <<>>
    /\ bcast' = "none"
    /\ activities' = IF Completes(p, f)
                     THEN addActivity(activities, ActivityType(f.type), f.response,
                                      f.problemName)
                     ELSE activities
    /\ actPosts' = IF Completes(p, f) THEN actUpdateAllViews(activities') ELSE <<>>
    /\ LET h == IF Completes(p, f)
                THEN MapGet(activeStatusMessages[p], CompletedKind(f.type)) ELSE 0
       IN /\ statusHandles' = IF h # 0 THEN DisposeHandles({h}) ELSE statusHandles
          /\ activeStatusMessages' =
                IF h # 0
                THEN [activeStatusMessages EXCEPT ![p] = MapDelete(@, CompletedKind(f.type))]
                ELSE activeStatusMessages
    /\ lastCall' = IF Reply(f) # "none"
                   THEN CallRecord(p, Reply(f), throws, isConnected[p], webSocket[p],
                                   sock[p], reconnectTimeout[p], timers[p])
                   ELSE NoCall
    /\ lastEvent' = [kind |-> "frame", provider |-> p, socket |-> s, frame |-> f]
    /\ UNCHANGED <<constructed, clientId, webSocket, sock, isConnected, reconnectTimeout, timers,
                   disposed>>
    /\ UNCHANGED <<req, markdownPath, panel, instances, view, viewState, viewOf,
                   restorePending, registered, removals, awaiting, modeResolver,
                   modeTimers, activityProvider, actConstructed, actInstances, actView,
                   actViewState, actPending>>
    /\ received' = Received(posts')
    /\ typing' = Typing(posts')

\* ------------------------------------------------------------ long histories

\* The chat history after n appends: user messages and replies in turn.
StoredChat(n) == [i \in 1..n |-> IF i % 2 = 1 THEN UserMessage ELSE AIMessage]

\* The frames that append to the chat history.
ChatTextFrames == {[type |-> "backend_message"], [type |-> "chat_message"]}

\* The ChatViewProvider of activate() with a history of up to HistoryCap
\* messages already stored.
InitChatHistory ==
    /\ InitProviders
    /\ \E n \in (HistoryCap - MaxMsgs)..HistoryCap : messages = StoredChat(n)
    /\ activities = <<>>
    /\ actConstructed = FALSE
    /\ actInstances = <<>>

\* The four appends of the chat history, followed until the history is
\* longer than HistoryCap.
NextChatHistory ==
    \/ \E s \in Sockets, throws \in BOOLEAN : OnOpen(1, s, throws)
    \/ \E v \in Views : ResolveWebviewView(1, v)
    \/ Len(messages) <= HistoryCap /\ HandleUserMessage(1)
    \/ Len(messages) <= HistoryCap /\ \E throws \in BOOLEAN : UserMessageSend(1, throws)
    \/ Len(messages) <= HistoryCap
          /\ \E s \in Sockets, f \in ChatTextFrames : OnMessageChat(1, s, f, FALSE)

SpecChatHistory == InitChatHistory /\ [][NextChatHistory]_vars

\* The names of the problems of the entries stored before the run.
OldNames == {"O1", "O2"}

\* The i-th activity ever added, and the history after n additions (the most
\* recent at the head).
StoredEntry(i) ==
    ActivityData(IF i % 2 = 1 THEN "submission" ELSE "run",
                 IF i % 3 = 0 THEN "FAIL" ELSE "PASS",
                 IF i % 5 < 2 THEN "O1" ELSE "O2")
StoredActivities(n) == [j \in 1..n |-> StoredEntry(n - j + 1)]

\* The entries the run has added.
NewEntries(acts) == {j \in DOMAIN acts : acts[j].problemName \in Names}

\* An ActivityViewProvider with a history of up to HistoryCap entries
\* already stored.
InitActivityHistory ==
    /\ InitProviders
    /\ messages = <<>>
    /\ \E n \in (HistoryCap - MaxActs)..HistoryCap : activities = StoredActivities(n)
    /\ actConstructed = TRUE
    /\ actInstances = <<AV>>

\* addActivity and the activity view's lifecycle, for MaxActs additions.
NextActivityHistory ==
    \/ Cardinality(NewEntries(activities)) < MaxActs
          /\ \E type \in {"submission", "run"}, r \in Responses, n \in Names :
                AddActivity(type, r, n)
    \/ \E v \in ActViews : ActResolveWebviewView(v)
    \/ \E v \in ActViews : ActViewDisposed(v)
    \/ ActUpdateTimer

SpecActivityHistory == InitActivityHistory /\ [][NextActivityHistory]_vars

\* ------------------------------------------------- the chat provider's runs

\* Surfaces of both views come and go while entries are added to the two
\* histories.
NextSurfaces ==
    \/ \E s \in Sockets : OnOpen(1, s, FALSE)
    \/ \E v \in Views : ResolveWebviewView(1, v)
    \/ \E v \in Views : ViewDisposed(v)
    \/ Len(messages) < MaxMsgs
          /\ \E s \in Sockets : OnMessageChat(1, s, [type |-> "backend_message"], FALSE)
    \/ ConstructActivity
    \/ \E v \in ActViews : ActResolveWebviewView(v)
    \/ \E v \in ActViews : ActViewDisposed(v)
    \/ Len(activities) < MaxActs
          /\ \E type \in {"submission", "run"} : AddActivity(type, "PASS", "P1")

SpecSurfaces == Init /\ [][NextSurfaces]_vars

\* The chat view's surfaces, the four appends of the chat history and the
\* replays.
NextReplay ==
    \/ \E s \in Sockets : OnOpen(1, s, FALSE)
    \/ \E v \in Views : ResolveWebviewView(1, v)
    \/ \E v \in Views : ViewDisposed(v)
    \/ Room(Len(messages)) /\ RestoreTimer(1)
    \/ Room(Len(messages)) /\ RequestMessages(1)
    \/ Len(messages) < MaxMsgs /\ Room(1) /\ HandleUserMessage(1)
    \/ Len(messages) < MaxMsgs /\ Room(1)
          /\ \E throws \in BOOLEAN : UserMessageSend(1, throws)
    \/ Len(messages) < MaxMsgs /\ Room(1)
          /\ \E s \in Sockets, f \in ChatTextFrames : OnMessageChat(1, s, f, FALSE)

SpecReplay == Init /\ [][NextReplay]_vars

\* The chat view's surfaces, the two histories, the tracker and clearChat
\* with the answers to its mode request.
NextClear ==
    \/ \E s \in Sockets : OnOpen(1, s, FALSE)
    \/ \E v \in Views : ResolveWebviewView(1, v)
    \/ \E v \in Views : ViewDisposed(v)
    \/ Len(messages) < MaxMsgs
          /\ \E s \in Sockets : OnMessageChat(1, s, [type |-> "backend_message"], FALSE)
    \/ ClearChat(1)
    \/ \E throws \in BOOLEAN : CurrentModeResponse(1, throws)
    \/ \E c \in modeTimers[1], throws \in BOOLEAN : ModeTimeout(1, c, throws)
    \/ ConstructActivity
    \/ Len(activities) < MaxActs /\ AddActivity("submission", "PASS", "P1")
    \/ \E type \in {"VS_SUBMIT", "VS_RUN"} : SendMessage(1, type, TRUE, FALSE)

SpecClear == Init /\ [][NextClear]_vars

\* The frames that complete an operation, with and without a response.
CompletionFrames ==
    {f \in ChatFrames : f.type \in CompletionTypes /\ f.response # "FAIL"
                           /\ f.problemName = "P1"}

\* Operations are started on the provider of activate() and on one made with
\* or without an activity provider, and their completion frames arrive.
NextOps ==
    \/ \E throws \in BOOLEAN : Construct(2, throws)
    \/ ConstructActivity
    \/ \E p \in Providers, s \in Sockets : OnOpen(p, s, FALSE)
    \/ \E p \in Providers, type \in OutTypes : SendMessage(p, type, TRUE, FALSE)
    \/ \E p \in Providers, s \in Sockets, f \in CompletionFrames :
          (Completes(p, f) => Len(activities) < MaxActs) /\ OnMessageChat(p, s, f, FALSE)
    \/ \E v \in ActViews : ActResolveWebviewView(v)
    \/ \E v \in ActViews : ActViewDisposed(v)
    \/ Dispose(2)

SpecOps == Init /\ [][NextOps]_vars

\* The chat link over its connects, losses and reconnects, with the frames
\* the provider's callers send in between. The register frame of the open
\* handler is a record of three strings handed to a socket that has just
\* opened: its send does not throw.
NextSession ==
    \/ \E s \in Sockets : OnOpen(1, s, FALSE)
    \/ \E s \in Sockets : OnError(1, s)
    \/ \E s \in Sockets : OnClose(1, s)
    \/ \E t \in timers[1], throws \in BOOLEAN : OnReconnectTimer(1, t, throws)
    \/ Dispose(1)
    \/ \E f \in IdFrames \ {"client_register"}, throws \in BOOLEAN :
          SendWebSocketMessage(1, f, throws)

SpecSession == Init /\ [][NextSession]_vars

\* The user sends chat messages while the chat link opens, is lost and comes
\* back.
NextChatSend ==
    \/ \E s \in Sockets : OnOpen(1, s, FALSE)
    \/ \E s \in Sockets : OnClose(1, s)
    \/ \E t \in timers[1] : OnReconnectTimer(1, t, FALSE)
    \/ \E v \in Views : ResolveWebviewView(1, v)
    \/ Len(messages) < MaxMsgs /\ HandleUserMessage(1)
    \/ \E throws \in BOOLEAN : UserMessageSend(1, throws)

SpecChatSend == Init /\ [][NextChatSend]_vars

\* The frames without a payload of their own.
PlainFrames == {f \in ChatFrames : f.type \notin CompletionTypes}

\* Frames of every kind arrive at the two providers while a surface of the
\* chat view comes and goes, one operation is pending, one problem
\* description is requested and the chat provider is disposed.
NextInbound ==
    \/ \E o \in ConnOwners, s \in Sockets : OnOpen(o, s, FALSE)
    \/ \E v \in Views : ResolveWebviewView(1, v)
    \/ \E v \in Views : ViewDisposed(v)
    \/ activeStatusMessages[1] = <<>> /\ SendMessage(1, "VS_SUBMIT", TRUE, FALSE)
    \/ OpenProblemDescription(1, TRUE, FALSE)
    \/ \E s \in Sockets, f \in PlainFrames :
          Len(messages) < MaxMsgs /\ OnMessageChat(1, s, f, FALSE)
    \/ \E s \in Sockets, type \in InTypes, path \in FramePaths :
          OnMessagePD(s, type, path, TRUE)
    \/ Dispose(1)

SpecInbound == Init /\ [][NextInbound]_vars

\* ------------------------------------------------------------ claims C1-C5

\* A socket object of owner o is created by the step.
SocketCreated(o) ==
    \E s \in Sockets : sock[o][s] \in {"FREE", "CLOSED"} /\ sock'[o][s] = "CONNECTING"

\* C1: once dispose() has been called on an owner, no reconnect timer of the
\* owner is outstanding after any later step and no later step creates a
\* socket for it.
C1_NoReconnectAfterDispose ==
    [][\A o \in Owners : disposed[o] => (timers'[o] = {} /\ ~SocketCreated(o))]_vars

\* C2: an owner never has more than one outstanding reconnect timer, the
\* outstanding timer is the one whose handle is stored (so the next close
\* cancels it), and a timer is outstanding only while the owner has no socket
\* that is not closed: one timer, hence one reconnect attempt, per disconnect.
C2_AtMostOneReconnectTimer ==
    \A o \in Owners :
        /\ Cardinality(timers[o]) + Cardinality(LiveSockets(o)) <= 1
        /\ \A t \in timers[o] : t.id = reconnectTimeout[o]

\* A second disconnect: the socket made by a reconnect has closed in turn and
\* its reconnect timer is outstanding.
C2_Witness ==
    \E o \in Owners : timers[o] # {} /\ sock[o][2] = "CLOSED" /\ webSocket[o] = 2

\* The readyState a recorded call read.
CallReadyState(c) ==
    IF c.pre.webSocket = 0 THEN "UNDEFINED"
    ELSE IF c.pre.sock[c.pre.webSocket] \in {"CLOSING", "ABORTING", "ERRORED"}
         THEN "CLOSING"
         ELSE c.pre.sock[c.pre.webSocket]

\* C3: a sendWebSocketMessage call never lets an exception out; it returns
\* true only when the flag was set, the socket was OPEN and the frame reached
\* the socket; it returns false in every other case, with no frame handed
\* over; and it leaves the flag, the socket and the reconnect timer as they
\* were.
C3_SendContract ==
    lastCall.owner # -1 =>
        LET c == lastCall
            o == lastCall.owner
            connected == c.pre.isConnected /\ CallReadyState(c) = "OPEN"
        IN /\ c.ret \in {"true", "false"}
           /\ (c.ret = "true" => connected /\ c.handed = c.frame)
           /\ (c.ret = "false" => c.handed = "none")
           /\ (~connected => c.ret = "false")
           /\ c.pre = ConnSnapshot(isConnected[o], webSocket[o], sock[o],
                                   reconnectTimeout[o], timers[o])

\* A call on a Connected link whose socket.send threw, and one made after
\* dispose() on a socket that is closing with the flag still set.
C3_Witness ==
    /\ lastCall.owner # -1
    /\ lastCall.ret = "false"
    /\ lastCall.pre.isConnected
    /\ CallReadyState(lastCall) = "CLOSING"
    /\ disposed[lastCall.owner]

\* The step delivers 'error' (resp. 'close') of socket s of owner o.
ErrorDelivered(o, s) == sock[o][s] # "ERRORED" /\ sock'[o][s] = "ERRORED"
CloseDelivered(o, s) == sock[o][s] # "CLOSED" /\ sock'[o][s] = "CLOSED"

\* The reconnect the step leaves scheduled: exactly one timer, the stored
\* one, with the fixed delay.
ReconnectScheduled(o) ==
    timers'[o] = {[id |-> reconnectTimeout'[o], ms |-> ReconnectDelayMs]}

\* C4: a close event and an error event both leave the state Disconnected;
\* the close event schedules the reconnect, a single timer with the 2000 ms
\* delay; and an error event is followed by the close event of the same
\* socket, so that the reconnect is scheduled after it too.
C4_LinkLossSchedulesReconnect ==
    /\ [][\A o \in Owners : \A s \in Sockets :
             /\ CloseDelivered(o, s)
                   => (ConnState(o)' = "Disconnected" /\ ReconnectScheduled(o))
             /\ ErrorDelivered(o, s) => ConnState(o)' = "Disconnected"]_vars
    /\ \A o \in ConnOwners : \A s \in Sockets :
          (sock[o][s] = "ERRORED")
              ~> (/\ sock[o][s] = "CLOSED"
                  /\ timers[o] = {[id |-> reconnectTimeout[o], ms |-> ReconnectDelayMs]})

\* An error was delivered on a link that had been Connected, nothing is
\* scheduled, and the socket's close is still to come.
C4_Witness ==
    \E o \in Owners :
        /\ webSocket[o] # 0
        /\ sock[o][webSocket[o]] = "ERRORED"
        /\ timers[o] = {}
        /\ ~isConnected[o]
        /\ ~disposed[o]

\* C5: while dispose() has not been called, an owner always has a connection
\* attempt under way, an open link, or a reconnect timer outstanding, so that
\* another attempt follows every loss.
C5_ReconnectAlwaysPending ==
    \A o \in Owners :
        (Exists(o) /\ ~disposed[o]) => (LiveSockets(o) # {} \/ timers[o] # {})

\* ------------------------------------------------------------ claims C6-C8

\* The step delivers a problem_description_response frame to the
\* ProblemDescriptionProvider.
ResponseDelivered == lastEvent'.kind = "message" /\ lastEvent'.type = "problem_description_response"

\* A settled promise stays as it settled, and a timeout that fires on a
\* waiting request resolves it with null.
SettlesOnce(r) ==
    /\ (req[r].st = "resolved") => (req'[r].st = "resolved" /\ req'[r].val = req[r].val)
    /\ (req[r].st = "pending" /\ lastEvent' = [kind |-> "timeout", r |-> r])
          => (req'[r].st = "resolved" /\ req'[r].val = "null")

\* The step resolves request r with the delivered frame's path (null when
\* the frame carries none) and leaves its timeout timer cancelled.
ResolvedWithFrame(r) ==
    /\ req'[r].st = "resolved"
    /\ req'[r].val = PathOrNull(lastEvent'.path)
    /\ req'[r].timeout = 0

\* C6: a response frame that arrives while a request waits
\* resolves it with the frame's path and cancels the timeout; a timeout that
\* fires first resolves it with null; a settled result never changes.
C6_SettlesExactlyOnce ==
    [][\A r \in Reqs :
          /\ SettlesOnce(r)
          /\ (req[r].st = "pending" /\ ResponseDelivered) => ResolvedWithFrame(r)]_vars

\* What the code does keep of C6: the same, for a response frame that arrives
\* on the socket the request's one-shot listener is attached to.
C6_SettlesExactlyOnceOnItsSocket ==
    [][\A r \in Reqs :
          /\ SettlesOnce(r)
          /\ (req[r].st = "pending" /\ ResponseDelivered
                 /\ lastEvent'.socket = req[r].listener) => ResolvedWithFrame(r)]_vars

\* One request was resolved by a response with its path, another by its
\* timeout with null, and a response that came after the timeout has just
\* been handled.
C6_Witness ==
    /\ lastEvent.kind = "message"
    /\ lastEvent.type = "problem_description_response"
    /\ lastEvent.path \in Paths
    /\ \E r1, r2 \in Reqs :
          /\ req[r1].by = "response" /\ req[r1].val \in Paths /\ req[r1].timeout = 0
          /\ req[r2].by = "timeout" /\ req[r2].val = "null"
          /\ req[r2].listener = 0

\* C7: a response frame that arrives when every request has settled and one
\* of them was settled with null by its timeout leaves the stored path and
\* the panel content as they were.
C7_LateResponseIgnored ==
    [][(/\ ResponseDelivered
        /\ \E r \in Reqs : req[r].by = "timeout"
        /\ \A r \in Reqs : req[r].st # "pending")
           => (markdownPath' = markdownPath /\ panel' = panel)]_vars

\* What holds of every call at every moment: it never rejects, it has
\* resolved with null at once when it was made on a link not Connected,
\* without a workspace folder or with a failing send, and while it waits its
\* timeout timer is outstanding.
RequestSettledOrTimed(r) ==
    /\ req[r].st # "rejected"
    /\ req[r].why \in {"not_connected", "no_folder", "send_failed"}
          => (req[r].st = "resolved" /\ req[r].val = "null" /\ req[r].by = "immediate")
    /\ req[r].st = "pending" => req[r].timeout = RequestTimeoutMs

\* C8: every call resolves: at once with null in the three early cases, and
\* otherwise eventually, whatever happens to the link meanwhile.
C8_AlwaysResolves ==
    /\ [](\A r \in Reqs : RequestSettledOrTimed(r))
    /\ \A r \in Reqs : (req[r].st = "pending") ~> (req[r].st = "resolved")

\* A request is waiting while the link it was sent on is gone and a new one
\* is open.
C8_Witness ==
    \E r \in Reqs :
        /\ req[r].st = "pending"
        /\ req[r].listener # 0
        /\ req[r].listener # webSocket[PD]
        /\ ConnState(PD) = "Connected"

\* ----------------------------------------------------------- claims C9-C10

DisposedViews == {v \in Views : viewState[v] = "disposed"}

\* C9: a broadcast posts its event exactly once to every registered surface
\* that has not been disposed and to nothing else: N - M posts for N
\* registered surfaces of which M are disposed.
C9_BroadcastReachesLiveViews ==
    bcast # "none" =>
        /\ Len(posts) = Cardinality(registered) - Cardinality(registered \cap DisposedViews)
        /\ {posts[i].view : i \in DOMAIN posts} = registered \ DisposedViews
        /\ \A i \in DOMAIN posts : posts[i].type = bcast

\* A broadcast ran with a disposed surface and a live one among the
\* registered surfaces (N = 2, M = 1) and posted to the live one.
C9_Witness ==
    /\ bcast # "none"
    /\ Cardinality(registered) = 2
    /\ Cardinality(registered \cap DisposedViews) = 1
    /\ Len(posts) = 1

\* C10: the registry holds no provider twice; it holds exactly the
\* constructed providers none of whose surfaces has been disposed; and a
\* provider is taken out at most once, the removal run for a provider that is
\* no longer there changing nothing.
C10_RegistryMembership ==
    /\ \A i, j \in DOMAIN instances : instances[i] = instances[j] => i = j
    /\ Range(instances) =
          {p \in constructed : \A v \in Views : viewOf[v] = p => viewState[v] # "disposed"}
    /\ \A p \in Providers : removals[p] <= 1

\* The removal has run twice for one provider (two of its surfaces were
\* disposed) while another provider is registered.
C10_Witness ==
    \E p \in Providers :
        /\ Cardinality({v \in DisposedViews : viewOf[v] = p}) = 2
        /\ removals[p] = 1
        /\ \E q \in Range(instances) : q # p

\* ---------------------------------------------------------- claims C11-C16

LiveViews == {v \in Views : viewState[v] = "live"}

\* C11: the provider of every live surface is in the registry, and a
\* broadcast posts its event to every live surface, a surface re-created on
\* a provider whose earlier surface was disposed included.
C11_LiveSurfaceRegistered ==
    /\ \A v \in LiveViews : viewOf[v] \in Range(instances)
    /\ bcast # "none" => \A v \in LiveViews : \E i \in DOMAIN posts : posts[i].view = v

\* C12: the chat history never holds more than 50 messages.
C12_ChatHistoryCapped == Len(messages) <= HistoryCap

\* C13: the activity history never holds more than 50 entries, and
\* addActivity puts the new entry at the head, in front of the entries
\* stored before in their order, all of them when there were fewer than 50
\* and all but the oldest (the last) when there were 50.
C13_ActivityHistoryCapped ==
    /\ [](Len(activities) <= HistoryCap)
    /\ [][lastEvent'.kind = "addActivity" =>
             activities' = <<lastEvent'.entry>> \o
                              (IF Len(activities) = HistoryCap
                               THEN SubSeq(activities, 1, HistoryCap - 1)
                               ELSE activities)]_vars

\* An addition to a full history has just evicted the oldest entry: the
\* history is full, a new entry is at its head and the first entry ever
\* stored is no longer its last.
C13_Witness ==
    /\ lastEvent.kind = "addActivity"
    /\ Len(activities) = HistoryCap
    /\ activities[1] = lastEvent.entry
    /\ activities[HistoryCap] # StoredEntry(1)
    /\ activities[HistoryCap].problemName \in OldNames

\* The step resolves or disposes a surface of the chat view or of the
\* activity view.
SurfaceEvent ==
    lastEvent'.kind \in {"resolve", "viewDisposed", "actResolve", "actViewDisposed"}

\* C14: resolving a surface and disposing one, first or re-created, of the
\* chat view or of the activity view, leaves both histories as they were.
C14_SurfacesKeepHistories ==
    [][SurfaceEvent => (messages' = messages /\ activities' = activities)]_vars

\* A chat surface has just been re-created after an earlier one was
\* disposed, an activity surface was disposed too, and both histories hold
\* entries.
C14_Witness ==
    /\ lastEvent.kind = "resolve"
    /\ \E v \in DisposedViews : viewOf[v] = lastEvent.provider
    /\ \E v \in ActViews : actViewState[v] = "disposed"
    /\ messages # <<>>
    /\ activities # <<>>

\* C15: a replay posts to the provider's surface one addMessage per stored
\* message, the i-th post carrying the i-th message of the history, and
\* every resolveWebviewView starts the timer of one replay.
C15_ReplayInOrder ==
    [][/\ (lastEvent'.kind = "restore" /\ view[lastEvent'.provider] # 0) =>
             /\ Len(posts') = Len(messages)
             /\ \A i \in DOMAIN posts' :
                   posts'[i] = [view |-> view[lastEvent'.provider], type |-> "addMessage",
                                msg |-> messages[i]]
       /\ lastEvent'.kind = "resolve" =>
             restorePending'[lastEvent'.provider] = restorePending[lastEvent'.provider] + 1
      ]_vars

\* A replay has just posted two different messages to a live surface that
\* was re-created after an earlier surface of the provider was disposed.
C15_Witness ==
    /\ lastEvent.kind = "restore"
    /\ Len(posts) >= 2
    /\ posts[1].msg # posts[2].msg
    /\ viewState[posts[1].view] = "live"
    /\ \E v \in DisposedViews : viewOf[v] = lastEvent.provider

\* What clearChat is to leave alone: the activity history, the tracker and
\* its handles, and the connection.
ClearChatFrame ==
    /\ activities' = activities
    /\ activeStatusMessages' = activeStatusMessages
    /\ statusHandles' = statusHandles
    /\ UNCHANGED <<webSocket, sock, isConnected, reconnectTimeout, timers, disposed>>

\* C16: clearChat leaves the chat history empty and posts clearChat to every
\* live surface, and it changes neither the activity history nor the
\* tracker and its handles nor the connection.
C16_ClearChat ==
    [][lastEvent'.kind = "clearChat" =>
          /\ messages' = <<>>
          /\ \A v \in LiveViews :
                \E i \in DOMAIN posts' : posts'[i] = [view |-> v, type |-> "clearChat"]
          /\ ClearChatFrame
      ]_vars

\* C16, without the surfaces of providers that left the registry: clearChat
\* leaves the chat history empty, posts clearChat to every live surface of a
\* provider in the registry, and changes none of the rest.
C16_ClearChatRegistered ==
    [][lastEvent'.kind = "clearChat" =>
          /\ messages' = <<>>
          /\ \A v \in LiveViews :
                viewOf[v] \in Range(instances) =>
                   \E i \in DOMAIN posts' : posts'[i] = [view |-> v, type |-> "clearChat"]
          /\ ClearChatFrame
      ]_vars

\* --------------------------------------------------------- claims C17-C20

\* The handle a tracker holds for a kind before the step (0: none).
Pending(p, k) == MapGet(activeStatusMessages[p], k)

\* C17: a provider's tracker holds at most one handle for submit and at
\* most one for run and no other key, and a handle it holds has not been
\* disposed.
C17_OneHandlePerKind ==
    \A p \in Providers :
        LET m == activeStatusMessages[p] IN
        /\ \A i \in DOMAIN m : m[i].key \in Kinds /\ statusHandles[m[i].handle].disposals = 0
        /\ \A k \in Kinds : Cardinality({i \in DOMAIN m : m[i].key = k}) <= 1

\* A sendMessage has just stored a handle for a kind that had one, and the
\* tracker holds a handle of each kind.
C17_Witness ==
    /\ lastEvent.kind = "sendMessage"
    /\ Len(activeStatusMessages[lastEvent.provider]) = 2
    /\ \E h \in HandleIds : statusHandles[h].made /\ h \notin TrackedHandles(lastEvent.provider)

\* C18: when sendMessage stores a handle for a kind that has a pending
\* handle, the pending handle is disposed by the time it has been replaced.
C18_ReplacedHandleDisposed ==
    [][(lastEvent'.kind = "sendMessage" /\ lastEvent'.handle # 0
           /\ KindOf(lastEvent'.type) # "none") =>
          LET old == Pending(lastEvent'.provider, KindOf(lastEvent'.type))
          IN old # 0 => statusHandles'[old].disposals >= 1
      ]_vars

\* The step dispatches a completion frame.
CompletionEvent == lastEvent'.kind = "frame" /\ lastEvent'.frame.type \in CompletionTypes

\* What a completion of kind k on provider p is to do: the pending handle, if
\* any, is disposed once and leaves the tracker; nothing else in the tracker
\* and no other handle changes.
CompletionEffect(p, k) ==
    LET h == Pending(p, k) IN
    /\ h # 0 => /\ statusHandles'[h].disposals = statusHandles[h].disposals + 1
                /\ activeStatusMessages'[p] = MapDelete(activeStatusMessages[p], k)
    /\ h = 0 => activeStatusMessages'[p] = activeStatusMessages[p]
    /\ \A q \in Providers \ {p} : activeStatusMessages'[q] = activeStatusMessages[q]
    /\ \A g \in HandleIds \ {h} : statusHandles'[g] = statusHandles[g]

\* C19: a submission_response or run_response frame disposes the pending
\* handle of its kind once and removes it from the tracker, leaves the other
\* kind's handle alone, and changes nothing when no handle is pending.
C19_CompletionDisposesHandle ==
    [][CompletionEvent =>
          CompletionEffect(lastEvent'.provider, CompletedKind(lastEvent'.frame.type))]_vars

\* C19, for the frames whose branch runs its body (the provider has an
\* activity provider and the frame carries a response): the completion has
\* the effect above.
C19_CompletionWithResponse ==
    [][(CompletionEvent /\ Completes(lastEvent'.provider, lastEvent'.frame)) =>
          CompletionEffect(lastEvent'.provider, CompletedKind(lastEvent'.frame.type))]_vars

\* C20: a submission_response frame with a response and a problem name,
\* arriving at a provider with a pending submit handle, disposes that handle
\* and removes it from the tracker, puts one new entry of kind submission
\* with the frame's name and response at the head of the activity history,
\* and posts the new history to every live activity surface.
C20_SubmissionEndToEnd ==
    [][(/\ lastEvent'.kind = "frame"
        /\ lastEvent'.frame.type = "submission_response"
        /\ lastEvent'.frame.response # "none"
        /\ lastEvent'.frame.problemName # "none"
        /\ Pending(lastEvent'.provider, "submit") # 0) =>
          LET p == lastEvent'.provider
              f == lastEvent'.frame
              h == Pending(p, "submit")
          IN /\ statusHandles'[h].disposals = 1
             /\ MapGet(activeStatusMessages'[p], "submit") = 0
             /\ activities' = <<ActivityData("submission", f.response, f.problemName)>>
                                 \o activities
             /\ \A v \in ActViews :
                   actViewState[v] = "live" =>
                      \E i \in DOMAIN actPosts' :
                         actPosts'[i] = [view |-> v, type |-> "updateActivities",
                                         activities |-> activities']
      ]_vars

\* --------------------------------------------------------- claims C21-C30

\* The step made a ChatViewProvider build a frame that has a clientId field.
SendsIdFrame == lastCall'.owner \in Providers /\ lastCall'.frame \in IdFrames

\* C23: the _clientId of a provider that exists never changes, and every
\* frame the provider builds with a clientId field, on its first socket and
\* on every later one, carries that value.
C23_ClientIdStable ==
    [][/\ \A p \in constructed : clientId[p] # 0 /\ clientId'[p] = clientId[p]
       /\ SendsIdFrame => lastCall'.clientId = clientId[lastCall'.owner]
      ]_vars

\* A frame with the clientId has reached the provider's second socket, after
\* the first one closed and the reconnect timer fired.
C23_Witness ==
    /\ lastCall.owner = 1
    /\ lastCall.handed \in IdFrames
    /\ lastCall.clientId = clientId[1]
    /\ \E s \in Sockets : s # webSocket[1] /\ sock[1][s] = "CLOSED"

\* The control frames the two providers send.
ControlFrames == IdFrames \cup {"give_problem_description"}

\* C24: every control frame passed to sendWebSocketMessage, by a
\* ChatViewProvider or by the ProblemDescriptionProvider, has a clientId.
C24_ControlFramesCarryClientId ==
    (lastCall.owner # -1 /\ lastCall.frame \in ControlFrames) => lastCall.clientId # 0

\* The sockets of owner o that are connecting or open.
ActiveLinks(o) == {s \in Sockets : sock[o][s] \in {"CONNECTING", "OPEN"}}

\* C28: the process has at most one connecting or open socket, those of the
\* ChatViewProvider and of the ProblemDescriptionProvider taken together.
C28_OneActiveLink ==
    Cardinality({os \in Owners \X Sockets : os[2] \in ActiveLinks(os[1])}) <= 1

\* C28, for each provider by itself: it has at most one connecting or open
\* socket and none that has not closed besides its current one.
C28_OneActiveLinkPerProvider ==
    \A o \in Owners :
        /\ Cardinality(ActiveLinks(o)) <= 1
        /\ \A s \in Sockets : sock[o][s] \notin {"FREE", "CLOSED"} => s = webSocket[o]

\* Socket s of provider p becomes open in the step.
Connects(p, s) == sock[p][s] = "CONNECTING" /\ sock'[p][s] = "OPEN"

\* C25: when a socket of the chat provider opens, client_register with the
\* provider's clientId reaches that socket in the same step; client_register
\* is built at no other time; and any other frame reaches a socket only if
\* the socket was open, and so registered, before the step.
C25_RegisterOncePerConnection ==
    [][\A p \in constructed :
          /\ \A s \in Sockets :
                Connects(p, s) =>
                   /\ lastCall'.owner = p
                   /\ lastCall'.handed = "client_register"
                   /\ lastCall'.clientId = clientId[p]
                   /\ lastCall'.pre.webSocket = s
          /\ (lastCall'.owner = p /\ lastCall'.frame = "client_register") =>
                Connects(p, webSocket[p])
          /\ (lastCall'.owner = p /\ lastCall'.handed \notin {"none", "client_register"}) =>
                sock[p][webSocket[p]] = "OPEN"
      ]_vars

\* client_register has reached the provider's second socket, after the first
\* one closed and the reconnect timer fired.
C25_Witness ==
    /\ lastCall.owner = 1
    /\ lastCall.handed = "client_register"
    /\ \E s \in Sockets : s # webSocket[1] /\ sock[1][s] = "CLOSED"
    /\ sock[1][webSocket[1]] = "OPEN"

\* The step is the continuation of handleUserMessage on a provider whose
\* link is not Connected.
SendWithoutLink ==
    lastEvent'.kind = "userMessageSent" /\ ConnState(lastEvent'.provider) # "Connected"

\* The posts of type ty among ps that went to view v.
PostsTo(ps, v, ty) == {i \in DOMAIN ps : ps[i].view = v /\ ps[i].type = ty}

C27_DeliveredWithoutLink ==
    [][SendWithoutLink => lastCall'.handed = "chat_message"]_vars

\* Everything the program keeps from one handler to the next, the reports of
\* what the last step sent and posted left out.
KeptState ==
    <<constructed, clientId, webSocket, sock, isConnected, reconnectTimeout, timers,
      disposed, req, markdownPath, panel, instances, view, viewState, viewOf,
      restorePending, messages, received, typing, awaiting, modeResolver, modeTimers,
      activityProvider, activeStatusMessages, statusHandles, activities,
      actConstructed, actInstances, actView, actViewState, actPending>>

\* The step dispatches a frame of the given type at the chat provider, or of
\* the given type at the problem-description provider.
Dispatches(chatType, pdType) ==
    \/ lastEvent'.kind = "frame" /\ lastEvent'.frame.type = chatType
    \/ lastEvent'.kind = "message" /\ lastEvent'.type = pdType

\* C21: a frame whose type neither switch knows makes its provider send
\* nothing and changes nothing the program keeps: the histories, the tracker
\* and its handles, the pending request, the stored path and the panel, the
\* sockets, the flag and the timers are as before, so what follows is handled
\* as it would have been without the frame.
C21_UnknownTypeIgnored ==
    [][Dispatches("unknown", "other") => (lastCall' = NoCall /\ UNCHANGED KeptState)]_vars

\* A frame of an unknown type has just been dispatched at the chat provider
\* while it was Connected and had a stored message and a pending handle, and
\* the problem-description provider had a stored path.
C21_Witness ==
    /\ lastEvent.kind = "frame"
    /\ lastEvent.frame.type = "unknown"
    /\ messages # <<>>
    /\ activeStatusMessages[1] # <<>>
    /\ ConnState(1) = "Connected"
    /\ markdownPath # ""

\* C22: data that is not valid JSON makes its provider send nothing and
\* changes nothing the program keeps (histories, tracker, pending request,
\* sockets, flag, reconnect timer), so the frames after it are parsed and
\* dispatched as they would have been without it.
C22_UnparsableDropped ==
    [][Dispatches("unparsable", "malformed") =>
          (lastCall' = NoCall /\ UNCHANGED KeptState)]_vars

\* Data that does not parse has just arrived at the problem-description
\* provider while a request was waiting on that socket, the chat provider
\* having a stored message and a pending handle.
C22_Witness ==
    /\ lastEvent.kind = "message"
    /\ lastEvent.type = "malformed"
    /\ \E r \in Reqs : req[r].st = "pending" /\ req[r].listener = lastEvent.socket
    /\ messages # <<>>
    /\ activeStatusMessages[1] # <<>>

\* The step dispatches a ping at a chat provider.
PingEvent == lastEvent'.kind = "frame" /\ lastEvent'.frame.type = "ping"

\* What the ping handler does besides sending: one pong with the provider's
\* clientId is built, nothing is posted, and nothing the program keeps
\* changes.
PingHandled ==
    /\ lastCall'.owner = lastEvent'.provider
    /\ lastCall'.frame = "pong"
    /\ lastCall'.clientId = clientId[lastEvent'.provider]
    /\ posts' = <<>>
    /\ actPosts' = <<>>
    /\ UNCHANGED KeptState

\* C29 as stated: every ping is answered in its own dispatch step by one
\* pong with the clientId that reaches the socket, and changes neither a
\* history nor the tracker.
C29_EveryPingAnswered ==
    [][PingEvent => (PingHandled /\ lastCall'.handed = "pong")]_vars

\* C29, amended: every ping makes the handler build one pong with the
\* clientId in its own dispatch step and changes neither a history nor the
\* tracker; the pong reaches the socket when the link is Connected, and is
\* dropped when it is not (the socket is closing).
C29_PingAnsweredWhileConnected ==
    [][PingEvent =>
          /\ PingHandled
          /\ lastCall'.handed =
                (IF ConnState(lastEvent'.provider) = "Connected" THEN "pong" ELSE "none")
      ]_vars

\* A ping has just been answered by a pong on a Connected link, with a
\* message stored and a handle pending.
C29_Witness ==
    /\ lastEvent.kind = "frame"
    /\ lastEvent.frame.type = "ping"
    /\ lastCall.handed = "pong"
    /\ messages # <<>>
    /\ activeStatusMessages[1] # <<>>

\* The step dispatches a backend_message or a chat_message frame.
TextEvent ==
    lastEvent'.kind = "frame" /\ lastEvent'.frame.type \in {"backend_message", "chat_message"}

\* One entry that is not a user entry is appended, with the origin flag set
\* for a backend_message and unset for a chat_message.
TextAppended ==
    LET n == Len(messages) + 1 IN
    /\ Len(messages') = n
    /\ SubSeq(messages', 1, n - 1) = messages
    /\ ~messages'[n].isUser
    /\ messages'[n].isBackendInitiated = (lastEvent'.frame.type = "backend_message")

\* View v gets one addMessage post, and it carries the appended entry.
AddMessagePosted(v) ==
    /\ Cardinality(PostsTo(posts', v, "addMessage")) = 1
    /\ \A i \in PostsTo(posts', v, "addMessage") : posts'[i].msg = messages'[Len(messages')]

\* C30: a backend_message or chat_message frame appends one non-user entry
\* with the origin flag set, respectively unset, and the stored entry is
\* posted as addMessage to every live view.
C30_TextFrameStoredAndBroadcast ==
    [][TextEvent => (TextAppended /\ \A v \in LiveViews : AddMessagePosted(v))]_vars

\* C30, without the surfaces of providers that left the registry: the entry
\* is appended as claimed and posted to every live view of a provider in the
\* registry.
C30_TextFrameStoredAndBroadcastRegistered ==
    [][TextEvent =>
          /\ TextAppended
          /\ \A v \in LiveViews : viewOf[v] \in Range(instances) => AddMessagePosted(v)
      ]_vars

\* ------------------------------------------------ claims C31 and C35

\* The step passed one clear_chat frame with the provider's clientId and the
\* given mode to sendWebSocketMessage.
ClearChatSent(mode) ==
    /\ lastCall'.owner = lastEvent'.provider
    /\ lastCall'.frame = "clear_chat"
    /\ lastCall'.clientId = clientId[lastEvent'.provider]
    /\ lastCall'.clientId # 0
    /\ lastEvent'.mode = mode

\* C31: every clearChat invocation attempts one clear_chat send with the
\* clientId: at once with mode 'ask' when the provider has no surface, with
\* the reported mode when the surface answers, and with mode 'ask' when the
\* 1000 ms timer of a call that was not answered fires; a call that was
\* answered sends nothing more when its timer fires.
C31_OneClearChatPerInvocation ==
    [][/\ (lastEvent'.kind = "clearChat" /\ view[lastEvent'.provider] = 0)
            => ClearChatSent("ask")
       /\ (lastEvent'.kind = "currentModeResponse" /\ lastEvent'.call # 0)
            => ClearChatSent(lastEvent'.answer)
       /\ lastEvent'.kind = "modeTimeout"
            => IF lastEvent'.settled THEN lastCall' = NoCall
               ELSE ClearChatSent("ask")
      ]_vars

\* C31, without the claim that every invocation gets to its send: a
\* clear_chat send attempt carries the clientId, its mode is the reported
\* one on an answer and 'ask' otherwise, and an answered call sends nothing
\* more when its timer fires.
C31_ClearChatSendsWellFormed ==
    [][/\ (lastEvent'.kind = "clearChat" /\ view[lastEvent'.provider] = 0)
            => ClearChatSent("ask")
       /\ (lastEvent'.kind = "currentModeResponse" /\ lastEvent'.call # 0)
            => ClearChatSent(lastEvent'.answer)
       /\ lastEvent'.kind = "modeTimeout"
            => IF lastEvent'.mode = "none" THEN lastCall' = NoCall
               ELSE ~lastEvent'.settled /\ ClearChatSent("ask")
      ]_vars

\* C35: no getCurrentModeFromWebview call is left unsettled once its 1000 ms
\* timer has fired, however the calls of clearChat invocations overlap.
C35_ModeCallSettlesByTimeout ==
    \A p \in Providers : \A c \in modeTimers[p] : c.armed

\* ----------------------------------------------------------- claim C32

\* The step is the owner's reconnect timer firing and creating a socket.
ReconnectFired(o) ==
    /\ \E t \in timers[o] : timers'[o] = timers[o] \ {t}
    /\ webSocket'[o] # 0
    /\ sock[o][webSocket'[o]] \in {"FREE", "CLOSED"}
    /\ sock'[o][webSocket'[o]] = "CONNECTING"

\* The step is the open event of the socket the owner's latest connect
\* attempt created.
OpenedLatest(o) ==
    /\ webSocket'[o] = webSocket[o]
    /\ webSocket[o] # 0
    /\ sock[o][webSocket[o]] = "CONNECTING"
    /\ sock'[o][webSocket[o]] = "OPEN"

\* The step is an error or close event of the owner's current socket, or
\* dispose() closing it.
LinkLost(o) ==
    /\ webSocket'[o] = webSocket[o]
    /\ webSocket[o] # 0
    /\ \/ sock'[o][webSocket[o]] \in {"ERRORED", "CLOSED"}
       \/ /\ disposed'[o] /\ ~disposed[o]
          /\ sock'[o][webSocket[o]] = SocketClose(sock[o][webSocket[o]])

\* C32: the connection state of an owner changes only from Disconnected to
\* Connecting, when its reconnect timer fires; from Connecting to Connected,
\* by the open event of the socket of the latest connect attempt; and from
\* Connecting or Connected to Disconnected, when the link is lost or closed.
C32_ConnectionStateMachine ==
    [][\A o \in Owners :
          (Exists(o) /\ ConnState(o)' # ConnState(o)) =>
             \/ /\ ConnState(o) = "Disconnected" /\ ConnState(o)' = "Connecting"
                /\ ReconnectFired(o)
             \/ /\ ConnState(o) = "Connecting" /\ ConnState(o)' = "Connected"
                /\ OpenedLatest(o)
             \/ /\ ConnState(o) \in {"Connecting", "Connected"}
                /\ ConnState(o)' = "Disconnected"
                /\ LinkLost(o)
      ]_vars

\* The connection has gone round the cycle: a socket made by the reconnect
\* timer has opened after an earlier one was closed.
C32_Witness ==
    /\ ConnState(1) = "Connected"
    /\ \E s \in Sockets : s # webSocket[1] /\ sock[1][s] = "CLOSED"

\* ----------------------------------------------------------- claim C33

\* C33: a broadcast posts to the surface of every registered provider that
\* has one, in the one step it takes and whichever of the posts fail: a
\* failed post to one surface keeps the post from no other.
C33_BroadcastFireAndForget ==
    [][lastEvent'.kind = "broadcast" =>
          \A i \in DOMAIN instances :
             view[instances[i]] # 0 =>
                \E j \in DOMAIN posts' :
                   posts'[j] = [view |-> view[instances[i]], type |-> lastEvent'.type]
      ]_vars

\* A broadcast to two surfaces in which the post to the first one failed.
C33_Witness ==
    /\ lastEvent.kind = "broadcast"
    /\ Len(posts) = 2
    /\ posts[1].view \in lastEvent.failing
    /\ posts[2].view \notin lastEvent.failing

\* ----------------------------------------------------------- claim C34

\* The one-shot listeners of requests attached to socket s.
OneShotListeners(s) == {r \in Reqs : req[r].listener = s}

\* C34: a request that has settled, by a response or by its timeout, has
\* neither its timeout timer nor its one-shot listener registered any more,
\* and no socket carries more than one one-shot listener.
C34_SettledRequestLeavesNothing ==
    /\ \A r \in Reqs :
          req[r].st = "resolved" => req[r].timeout = 0 /\ req[r].listener = 0
    /\ \A s \in Sockets : Cardinality(OneShotListeners(s)) <= 1

\* C34, for the timer alone: a settled request has no timeout timer left.
C34_SettledRequestHasNoTimer ==
    \A r \in Reqs : req[r].st = "resolved" => req[r].timeout = 0

\* ----------------------------------------------------------- claim C36

\* C36: a sendMessage that returns false leaves the tracker as it was before
\* the call: no pending operation is recorded for a frame that was not sent.
C36_FailedSendRecordsNothing ==
    [][(lastEvent'.kind = "sendMessage" /\ lastCall'.ret = "false")
          => activeStatusMessages' = activeStatusMessages
      ]_vars

\* ----------------------------------------------------------- claim C37

\* C37: dispose() of a provider disposes every status handle its tracker
\* holds, each exactly once, disposes no other handle, and leaves the
\* tracker empty, whichever of the submit and run handles are pending.
C37_DisposeClearsTracker ==
    [][\A p \in Providers :
          (disposed'[p] /\ ~disposed[p]) =>
             /\ activeStatusMessages'[p] = <<>>
             /\ \A h \in HandleIds :
                   IF h \in TrackedHandles(p)
                   THEN /\ statusHandles[h].disposals = 0
                        /\ statusHandles'[h].disposals = 1
                   ELSE statusHandles'[h] = statusHandles[h]
      ]_vars

\* dispose() has run with a submit and a run handle pending: both handles
\* are disposed and the tracker is empty.
C37_Witness ==
    /\ disposed[2]
    /\ activeStatusMessages[2] = <<>>
    /\ Cardinality({h \in HandleIds : statusHandles[h].disposals = 1}) = 2

\* ----------------------------------------------------------- claim C38

\* C38: no live surface is posted a stored message twice. The history is
\* neither cleared nor trimmed here, so a surface that has received more
\* addMessage posts than there are stored messages has received one of them
\* twice, from the two replays of its registration or from a replay and a
\* live broadcast.
C38_MessagePostedOncePerSurface ==
    \A v \in Views : viewState[v] = "live" => received[v] <= Len(messages)

\* ----------------------------------------------------------- claim C39

\* C39: every event a step posts goes to a surface that is not disposed,
\* be it posted by a broadcast, by the delayed replay timer or by the
\* requestCurrentMode query of clearChat, on the chat view and on the
\* activity view.
C39_NoPostToDisposedSurface ==
    /\ \A i \in DOMAIN posts : viewState[posts[i].view] # "disposed"
    /\ \A i \in DOMAIN actPosts : actViewState[actPosts[i].view] # "disposed"

\* C39, for the broadcasts alone: the posts of a broadcast go to surfaces
\* that are not disposed.
C39_BroadcastSkipsDisposed ==
    bcast # "none" => \A i \in DOMAIN posts : viewState[posts[i].view] # "disposed"

\* ----------------------------------------------------------- claim C40

\* The user chats while the chat link opens, is lost and comes back, and the
\* backend's replies arrive.
NextTyping ==
    \/ \E s \in Sockets : OnOpen(1, s, FALSE)
    \/ \E s \in Sockets : OnClose(1, s)
    \/ \E t \in timers[1] : OnReconnectTimer(1, t, FALSE)
    \/ \E v \in Views : ResolveWebviewView(1, v)
    \/ Len(messages) < MaxMsgs /\ HandleUserMessage(1)
    \/ \E throws \in BOOLEAN : UserMessageSend(1, throws)
    \/ Len(messages) < MaxMsgs
          /\ \E s \in Sockets : OnMessageChat(1, s, [type |-> "chat_message"], FALSE)

SpecTyping == Init /\ [][NextTyping]_vars

\* What the program itself is sure to do: the continuation of an awaited
\* gatherVSCodeContext runs, and a reconnect timer that was set fires.
\* Replies, link losses and the user's messages come when they come.
FairSpecTyping ==
    /\ SpecTyping
    /\ WF_vars(\E throws \in BOOLEAN : UserMessageSend(1, throws))
    /\ WF_vars(\E t \in timers[1] : OnReconnectTimer(1, t, FALSE))

\* The chat_message of the user message that put the indicator up has been
\* sent, and the link has been lost since.
LinkLostAfterSend == awaiting[1] = 0 /\ ~isConnected[1]

\* C40: a typing indicator shown for a user message is hidden again in the
\* end, also when the link is lost after the chat_message was sent and before
\* a reply came.
C40_TypingHiddenAfterLinkLoss ==
    \A v \in Views : (typing[v] /\ LinkLostAfterSend) ~> ~typing[v]

\* C40, for the send that fails and the reply that arrives: the step of a
\* failed send and the step of a chat_message reply leave no indicator up.
C40_TypingHiddenOnFailureAndReply ==
    [][(\/ lastEvent'.kind = "userMessageSent" /\ lastCall'.ret # "true"
        \/ lastEvent'.kind = "frame" /\ lastEvent'.frame.type = "chat_message")
          => \A v \in Views : ~typing'[v]
      ]_vars

=============================================================================
